---------------------------- MODULE Spec2Model ----------------------------
(***************************************************************************)
(* The discrete-event kernel (kernel/timeline.py), the Cascade key         *)
(* reconciliation protocol (cascade.py) that runs on it, and the expire    *)
(* events a quantum memory (components/memory.py) keeps in the timeline.   *)
(*                                                                         *)
(* Python lists are sequences; the Python index i is the TLA+ index i + 1  *)
(* (operator At).  Python's None is NONE.  An exception raised by a        *)
(* handler leaves Timeline.run: it is recorded in the variable error and   *)
(* no further event is executed.                                           *)
(***************************************************************************)
EXTENDS Integers, Sequences, FiniteSets, TLC

VARIABLES
    timeline,   \* the Timeline object: events, time, stop_time, event_counter, is_running
    cascade,    \* cascade[r]: the Cascade entity of role r (0 sender, 1 receiver)
    bb84,       \* bb84[r]: the key list of the BB84 oracle attached to cascade[r]
    error,      \* NoError, or the exception that ended the run
    log,        \* history: what the handlers did (flips, appends, messages, executed events)
    memory      \* the Memory entity (components/memory.py): its expiration_event

vars == <<timeline, cascade, bb84, error, log, memory>>

-----------------------------------------------------------------------------
(* Bounds of the model *)

\* keylen, the argument of the first generate_key call
KeyLen == 5
\* the largest first-pass block size k that receive_key computes
MaxK == 5
\* the number of passes w given to both Cascade entities
W == 3
\* the kernel on its own: the number of events the driver and the processes schedule
MaxEvents == 3
\* the kernel on its own: the number of times run is called again after a stop
MaxReruns == 1
\* the kernel on its own: the largest event time
MaxTime == 2
\* the long run: keylen, and the number of bits in which the receiver's key is wrong
LongKeyLen == 10
MaxErrors == 2
\* the oracle that calls back later: the largest delay of a callback
MaxOracleDelay == 6
\* the heavily wrong keys: the most bits the receiver's key has right
MaxCorrect == 4
\* the memory: int(coherence_time * 1e12), the delay of its expire event
CoherenceTime == 1

\* the one-way delay of the classical channel
Delay == 5

NONE == -1
Inf == -2
NoError == "none"

Roles == {0, 1}
another(self) == 1 - self

-----------------------------------------------------------------------------
(* Python list helpers *)

At(l, i) == l[i + 1]
InRange(l, i) == i >= 0 /\ i < Len(l)
SetAt(l, i, v) == [l EXCEPT ![i + 1] = v]
\* l[start:end] with the clamping of Python slices
Slice(l, start, end) ==
    LET hi == IF end > Len(l) THEN Len(l) ELSE end
    IN  IF start >= hi THEN <<>> ELSE SubSeq(l, start + 1, hi)

Pow2(n) == 2 ^ n
Xor(a, b) == (a + b) % 2
\* (val >> pos) & 1
Bit(val, pos) == (val \div Pow2(pos)) % 2

RECURSIVE XorBits(_, _)
\* checksum = 0; for pos in positions: checksum ^= ((key >> pos) & 1)
XorBits(key, positions) ==
    IF positions = <<>> THEN 0
    ELSE Xor(Bit(key, Head(positions)), XorBits(key, Tail(positions)))

-----------------------------------------------------------------------------
(* EventList: a priority queue of events keyed on (time, insertion_seq) *)

EmptyEventList == [data |-> {}, seq |-> 0]

\* seq is the insertion sequence number the event list gives the event on push;
\* order is history: the number of schedule calls made before the one that
\* scheduled the event
Event(t, owner, method, args) ==
    [time |-> t, seq |-> NONE, order |-> NONE, owner |-> owner, method |-> method,
     args |-> args]

Before(e, f) == e.time < f.time \/ (e.time = f.time /\ e.seq <= f.seq)

\* variant: the insertion sequence numbers decrease
push_decreasing(el, event) ==
    [data |-> el.data \cup {[event EXCEPT !.seq = 0 - el.seq]}, seq |-> el.seq + 1]

push(el, event) ==
    [data |-> el.data \cup {[event EXCEPT !.seq = el.seq]}, seq |-> el.seq + 1]

top(el) == CHOOSE e \in el.data : \A f \in el.data : Before(e, f)

pop(el) == [el EXCEPT !.data = @ \ {top(el)}]

remove(el, event) == [el EXCEPT !.data = @ \ {event}]

-----------------------------------------------------------------------------
(* Timeline *)

NewTimeline(stop_time) ==
    [events |-> EmptyEventList, time |-> 0, stop_time |-> stop_time,
     event_counter |-> 0, is_running |-> FALSE]

now(tl) == tl.time

\* variant: an event earlier than now is counted and not pushed
schedule_drops_past(tl, event) ==
    IF event.time < tl.time THEN [tl EXCEPT !.event_counter = @ + 1]
    ELSE [tl EXCEPT !.event_counter = @ + 1,
                    !.events = push(@, [event EXCEPT !.order = tl.event_counter])]

schedule(tl, event) ==
    [tl EXCEPT !.event_counter = @ + 1,
               !.events = push(@, [event EXCEPT !.order = tl.event_counter])]

\* variant: event.time > self.stop_time
AtStop_strict(tl, event) == tl.stop_time # Inf /\ event.time > tl.stop_time

\* event.time >= self.stop_time, stop_time possibly math.inf
AtStop(tl, event) == tl.stop_time # Inf /\ event.time >= tl.stop_time

\* variant: stop_time is set past the current time
stop_later(tl) == [tl EXCEPT !.stop_time = now(tl) + 1]

stop(tl) == [tl EXCEPT !.stop_time = now(tl)]

\* variant: the event stays in the list
remove_event_kept(tl, event) == tl

remove_event(tl, event) == [tl EXCEPT !.events = remove(@, event)]

\* variant: the event is scheduled at the new time and stays at its old one
update_event_time_keeps_old(tl, event, time) ==
    schedule(tl, [event EXCEPT !.time = time])

\* self.events.remove(event); event.time = time; self.schedule(event)
update_event_time(tl, event, time) ==
    schedule(remove_event(tl, event), [event EXCEPT !.time = time])

-----------------------------------------------------------------------------
(* The run state a handler works on: s.tl the timeline, s.c the two        *)
(* Cascade entities, s.bb the oracles' key lists, s.err the exception      *)
(* raised so far, s.log the history.  Every operation leaves a state with  *)
(* an exception as it is: the exception has unwound the handler.           *)

ok(s) == s.err = NoError
raise(s, exception) == IF ok(s) THEN [s EXCEPT !.err = exception] ELSE s

Process(owner, method, args) == [owner |-> owner, method |-> method, args |-> args]

NewCascade(role) ==
    [role |-> role, w |-> W, state |-> 0, keylen |-> 0, key |-> NONE, k |-> 0,
     checksum_table |-> << <<>> >>, another_checksum |-> << <<>> >>,
     index_to_block_id |-> << <<>> >>, block_id_to_index |-> << <<>> >>]

\* variant: the delay shrinks with the number of pending events
send_by_cc_shrinking(s, self, process) ==
    IF ~ok(s) THEN s
    ELSE LET future_time == now(s.tl) + Delay - Cardinality(s.tl.events.data)
             event == Event(future_time, process.owner, process.method, process.args)
         IN  [s EXCEPT !.tl = schedule(@, event),
                       !.log.sent = Append(@, [from |-> self, method |-> process.method,
                                               args |-> process.args])]

send_by_cc(s, self, process) ==
    IF ~ok(s) THEN s
    ELSE LET future_time == now(s.tl) + Delay
             event == Event(future_time, process.owner, process.method, process.args)
         IN  [s EXCEPT !.tl = schedule(@, event),
                       !.log.sent = Append(@, [from |-> self, method |-> process.method,
                                               args |-> process.args])]

-----------------------------------------------------------------------------
(* create_checksum_table *)

\* random.seed(pass_id); bit_order = list(range(n)); random.shuffle(bit_order):
\* the values numpy's seeded MT19937 shuffle gives for seeds 2..6 and n = 1..11
ShuffleTable ==
    [seed \in 2..6 |->
        CASE seed = 2 -> << <<0>>, <<1, 0>>, <<2, 1, 0>>, <<2, 3, 1, 0>>, <<2, 4, 1, 3, 0>>,
                            <<4, 1, 3, 2, 5, 0>>, <<4, 1, 3, 2, 6, 5, 0>>,
                            <<4, 1, 6, 2, 3, 7, 5, 0>>, <<4, 1, 6, 2, 3, 0, 5, 7, 8>>,
                            <<4, 1, 5, 0, 7, 2, 3, 6, 9, 8>>,
                            <<4, 1, 9, 5, 0, 7, 2, 3, 6, 10, 8>> >>
          [] seed = 3 -> << <<0>>, <<1, 0>>, <<1, 0, 2>>, <<3, 1, 0, 2>>, <<3, 4, 1, 0, 2>>,
                            <<3, 5, 4, 1, 0, 2>>, <<4, 6, 5, 3, 1, 0, 2>>,
                            <<5, 7, 4, 6, 3, 1, 0, 2>>, <<6, 2, 7, 4, 5, 0, 3, 1, 8>>,
                            <<5, 4, 1, 2, 9, 6, 7, 0, 3, 8>>,
                            <<5, 4, 1, 2, 9, 6, 7, 0, 3, 8, 10>> >>
          [] seed = 4 -> << <<0>>, <<1, 0>>, <<1, 0, 2>>, <<0, 1, 3, 2>>, <<0, 3, 1, 4, 2>>,
                            <<4, 5, 3, 0, 1, 2>>, <<4, 6, 3, 0, 1, 5, 2>>,
                            <<4, 7, 3, 0, 1, 5, 6, 2>>, <<3, 4, 6, 2, 8, 0, 1, 5, 7>>,
                            <<3, 8, 4, 9, 2, 6, 0, 1, 5, 7>>,
                            <<3, 8, 4, 9, 2, 6, 0, 1, 5, 7, 10>> >>
          [] seed = 5 -> << <<0>>, <<0, 1>>, <<0, 1, 2>>, <<0, 1, 2, 3>>, <<4, 0, 1, 2, 3>>,
                            <<5, 2, 4, 1, 0, 3>>, <<6, 2, 4, 1, 0, 5, 3>>,
                            <<7, 2, 4, 1, 0, 5, 6, 3>>, <<2, 4, 8, 7, 1, 0, 5, 6, 3>>,
                            <<9, 5, 2, 4, 7, 1, 0, 8, 6, 3>>,
                            <<5, 8, 2, 10, 4, 7, 1, 0, 9, 6, 3>> >>
          [] seed = 6 -> << <<0>>, <<1, 0>>, <<0, 1, 2>>, <<0, 3, 1, 2>>, <<3, 4, 0, 1, 2>>,
                            <<4, 5, 0, 3, 1, 2>>, <<4, 5, 6, 0, 3, 1, 2>>,
                            <<0, 5, 6, 7, 4, 3, 1, 2>>, <<8, 1, 7, 0, 6, 5, 2, 4, 3>>,
                            <<8, 1, 7, 0, 6, 5, 2, 4, 3, 9>>,
                            <<8, 1, 7, 0, 6, 5, 2, 4, 3, 9, 10>> >>]

shuffle(seed, n) == ShuffleTable[seed][n]

\* block_size = self.k * (2**(pass_id - 1))
block_size_of(c, pass_id) == c.k * Pow2(pass_id - 1)

\* math.ceil(self.keylen / block_size)
block_num_of(c, pass_id) ==
    (c.keylen + block_size_of(c, pass_id) - 1) \div block_size_of(c, pass_id)

RECURSIVE create_index_to_block_id(_, _, _)
\* the first loop: one relation per pass, until block_size / 2 >= keylen
create_index_to_block_id(c, pass_id, table) ==
    IF pass_id > c.w THEN table
    ELSE LET block_size == block_size_of(c, pass_id) IN
         IF pass_id = 1
         THEN create_index_to_block_id(c, pass_id + 1,
                  Append(table, [i \in 1..c.keylen |-> (i - 1) \div c.k]))
         ELSE IF block_size >= 2 * c.keylen THEN table
         ELSE LET bit_order == shuffle(pass_id, c.keylen) IN
              create_index_to_block_id(c, pass_id + 1,
                  Append(table, [i \in 1..c.keylen |-> bit_order[i] \div block_size]))

\* variant: the unused slots of the last block are kept
pop_extra_kept(block) == block

RECURSIVE pop_extra(_)
\* while block[-1] is None: block.pop()
pop_extra(block) ==
    IF block[Len(block)] = NONE THEN pop_extra(SubSeq(block, 1, Len(block) - 1)) ELSE block

\* variant: the permutation of a pass depends on the party
block_to_index_relation_by_party(c, pass_id) ==
    LET block_size == block_size_of(c, pass_id)
        block_num == block_num_of(c, pass_id)
        bit_order == IF pass_id = 1 THEN [i \in 1..c.keylen |-> i - 1]
                     ELSE shuffle(pass_id + c.role, c.keylen)
        slot(b, j) == LET bit_pos == b * block_size + j IN
                      IF bit_pos < c.keylen
                      THEN CHOOSE i \in 0..(c.keylen - 1) : bit_order[i + 1] = bit_pos
                      ELSE NONE
        blocks == [b \in 1..block_num |-> [j \in 1..block_size |-> slot(b - 1, j - 1)]]
    IN  [blocks EXCEPT ![block_num] = pop_extra(@)]

\* the blocks of one pass: slot bit_pos % block_size of block bit_pos / block_size
\* holds the index i with bit_order[i] = bit_pos (pass 1: bit_pos = i)
block_to_index_relation(c, pass_id) ==
    LET block_size == block_size_of(c, pass_id)
        block_num == block_num_of(c, pass_id)
        bit_order == IF pass_id = 1 THEN [i \in 1..c.keylen |-> i - 1]
                     ELSE shuffle(pass_id, c.keylen)
        slot(b, j) == LET bit_pos == b * block_size + j IN
                      IF bit_pos < c.keylen
                      THEN CHOOSE i \in 0..(c.keylen - 1) : bit_order[i + 1] = bit_pos
                      ELSE NONE
        blocks == [b \in 1..block_num |-> [j \in 1..block_size |-> slot(b - 1, j - 1)]]
    IN  [blocks EXCEPT ![block_num] = pop_extra(@)]

\* the second loop: every pass 1..w, without the break of the first loop
create_block_id_to_index(c, table) ==
    table \o [pass_id \in 1..c.w |-> block_to_index_relation(c, pass_id)]

RECURSIVE xor_key_into(_, _, _, _, _)
\* for i in range(keylen): table[pass_id][index_to_block_id[pass_id][i]] ^= (key >> i) & 1
\* the empty table when an index is out of range (IndexError)
xor_key_into(c, relation, table, pass_id, i) ==
    IF i >= c.keylen THEN table
    ELSE IF ~InRange(relation, i) \/ ~InRange(table, pass_id)
            \/ ~InRange(At(table, pass_id), At(relation, i)) THEN <<>>
    ELSE LET block_id == At(relation, i)
             row == At(table, pass_id)
         IN  xor_key_into(c, relation,
                 SetAt(table, pass_id, SetAt(row, block_id, Xor(At(row, block_id), Bit(c.key, i)))),
                 pass_id, i + 1)

RECURSIVE create_checksums_extra_block(_, _, _, _)
\* variant: one checksum more than the pass has blocks
create_checksums_extra_block(c, index_to_block_id, table, pass_id) ==
    IF table = <<>> \/ pass_id >= Len(index_to_block_id) THEN table
    ELSE LET zeros == [b \in 1..(block_num_of(c, pass_id) + 1) |-> 0] IN
         create_checksums_extra_block(c, index_to_block_id,
             xor_key_into(c, At(index_to_block_id, pass_id), Append(table, zeros), pass_id, 0),
             pass_id + 1)

RECURSIVE create_checksums(_, _, _, _)
\* the third loop: for pass_id in range(1, len(self.index_to_block_id))
create_checksums(c, index_to_block_id, table, pass_id) ==
    IF table = <<>> \/ pass_id >= Len(index_to_block_id) THEN table
    ELSE LET zeros == [b \in 1..block_num_of(c, pass_id) |-> 0] IN
         create_checksums(c, index_to_block_id,
             xor_key_into(c, At(index_to_block_id, pass_id), Append(table, zeros), pass_id, 0),
             pass_id + 1)

create_checksum_table(s, self) ==
    IF ~ok(s) THEN s
    ELSE LET c == s.c[self]
             i2b == create_index_to_block_id(c, 1, c.index_to_block_id)
             b2i == create_block_id_to_index(c, c.block_id_to_index)
             cst == create_checksums(c, i2b, c.checksum_table, 1)
             s1 == [s EXCEPT !.c[self].index_to_block_id = i2b,
                             !.c[self].block_id_to_index = b2i,
                             !.log.built = Append(@, self)]
         IN  IF cst = <<>> THEN raise(s1, "IndexError")
             ELSE [s1 EXCEPT !.c[self].checksum_table = cst]

-----------------------------------------------------------------------------
(* The message handlers of Cascade *)

\* variant: the first half is the first position only
interactive_binary_search_uneven(s, self, pass_id, block_id, start, end) ==
    LET mid == IF end - start > 1 THEN start + 1 ELSE (end + start) \div 2
        first == Process(another(self), "send_for_binary", <<pass_id, block_id, start, mid>>)
        last == Process(another(self), "send_for_binary", <<pass_id, block_id, mid, end>>)
    IN  send_by_cc(send_by_cc(s, self, first), self, last)

\* Split block[start:end] and ask the sender for the checksum of each half
interactive_binary_search(s, self, pass_id, block_id, start, end) ==
    LET mid == (end + start) \div 2
        first == Process(another(self), "send_for_binary", <<pass_id, block_id, start, mid>>)
        last == Process(another(self), "send_for_binary", <<pass_id, block_id, mid, end>>)
    IN  send_by_cc(send_by_cc(s, self, first), self, last)

send_key(s, self) ==
    send_by_cc(s, self, Process(another(self), "receive_key", <<s.c[self].key>>))

\* variant: a different k is sent
send_params_other_k(s, self) ==
    send_by_cc(s, self,
        Process(another(self), "receive_params", <<s.c[self].k + 1, s.c[self].keylen>>))

send_params(s, self) ==
    send_by_cc(s, self,
        Process(another(self), "receive_params", <<s.c[self].k, s.c[self].keylen>>))

\* variant: no return when the state is past the last pass
send_checksum_no_return(s, self, pass_id, block_id) ==
    IF ~ok(s) THEN s
    ELSE LET s1 == IF pass_id > s.c[self].state
                   THEN [s EXCEPT !.c[self].state = @ + 1] ELSE s
             table == s1.c[self].checksum_table
         IN  IF block_id = NONE THEN raise(s1, "TypeError")
             ELSE IF ~InRange(table, pass_id) \/ ~InRange(At(table, pass_id), block_id)
             THEN raise(s1, "IndexError")
             ELSE send_by_cc(s1, self,
                      Process(another(self), "receive_checksum",
                              <<pass_id, block_id, At(At(table, pass_id), block_id)>>))

\* variant: the checksum sent is the one of block 0
send_checksum_first_block(s, self, pass_id, block_id) ==
    IF ~ok(s) THEN s
    ELSE LET s1 == IF pass_id > s.c[self].state
                   THEN [s EXCEPT !.c[self].state = @ + 1] ELSE s
             table == s1.c[self].checksum_table
         IN  IF s1.c[self].state >= Len(table) THEN s1
             ELSE IF block_id = NONE THEN raise(s1, "TypeError")
             ELSE IF ~InRange(table, pass_id) \/ ~InRange(At(table, pass_id), block_id)
             THEN raise(s1, "IndexError")
             ELSE send_by_cc(s1, self,
                      Process(another(self), "receive_checksum",
                              <<pass_id, block_id, At(At(table, pass_id), 0)>>))

\* variant: the sender stays in its pass when asked for the next one
send_checksum_stays(s, self, pass_id, block_id) ==
    IF ~ok(s) THEN s
    ELSE LET table == s.c[self].checksum_table
         IN  IF s.c[self].state >= Len(table) THEN s
             ELSE IF block_id = NONE THEN raise(s, "TypeError")
             ELSE IF ~InRange(table, pass_id) \/ ~InRange(At(table, pass_id), block_id)
             THEN raise(s, "IndexError")
             ELSE send_by_cc(s, self,
                      Process(another(self), "receive_checksum",
                              <<pass_id, block_id, At(At(table, pass_id), block_id)>>))

send_checksum(s, self, pass_id, block_id) ==
    IF ~ok(s) THEN s
    ELSE LET s1 == IF pass_id > s.c[self].state
                   THEN [s EXCEPT !.c[self].state = @ + 1] ELSE s
             table == s1.c[self].checksum_table
         IN  IF s1.c[self].state >= Len(table) THEN s1
             ELSE IF block_id = NONE THEN raise(s1, "TypeError")
             ELSE IF ~InRange(table, pass_id) \/ ~InRange(At(table, pass_id), block_id)
             THEN raise(s1, "IndexError")
             ELSE send_by_cc(s1, self,
                      Process(another(self), "receive_checksum",
                              <<pass_id, block_id, At(At(table, pass_id), block_id)>>))

\* variant: the pass is left when one block is still to come
request_next_checksum_early(s, self) ==
    IF ~ok(s) THEN s
    ELSE LET c == s.c[self] IN
         IF ~InRange(c.checksum_table, c.state) \/ ~InRange(c.another_checksum, c.state)
         THEN raise(s, "IndexError")
         ELSE LET mine == Len(At(c.checksum_table, c.state))
                  got == Len(At(c.another_checksum, c.state))
                  block_id == IF mine > got + 1 THEN got ELSE 0
                  s1 == IF mine > got + 1 THEN s
                        ELSE [s EXCEPT !.c[self].state = @ + 1,
                                       !.c[self].another_checksum = Append(@, <<>>)]
                  pass_id == s1.c[self].state
              IN  send_by_cc(s1, self,
                      Process(another(self), "send_checksum", <<pass_id, block_id>>))

request_next_checksum(s, self) ==
    IF ~ok(s) THEN s
    ELSE LET c == s.c[self] IN
         IF ~InRange(c.checksum_table, c.state) \/ ~InRange(c.another_checksum, c.state)
         THEN raise(s, "IndexError")
         ELSE LET mine == Len(At(c.checksum_table, c.state))
                  got == Len(At(c.another_checksum, c.state))
                  block_id == IF mine > got THEN got ELSE IF mine = got THEN 0 ELSE NONE
                  s1 == IF mine = got
                        THEN [s EXCEPT !.c[self].state = @ + 1,
                                       !.c[self].another_checksum = Append(@, <<>>)]
                        ELSE s
                  pass_id == s1.c[self].state
              IN  send_by_cc(s1, self,
                      Process(another(self), "send_checksum", <<pass_id, block_id>>))

\* variant: the earlier passes are not looked at
FirstErrorInPrevious_none(c) == <<>>

\* variant: the last block of the earlier passes whose checksum differs
FirstErrorInPrevious_last(c) ==
    LET bad == {pb \in (1..(c.state - 1)) \X (0..c.keylen) :
                   /\ pb[2] < Len(At(c.another_checksum, pb[1]))
                   /\ At(At(c.checksum_table, pb[1]), pb[2])
                          # At(At(c.another_checksum, pb[1]), pb[2])}
    IN  IF bad = {} THEN <<>>
        ELSE CHOOSE pb \in bad : \A qc \in bad :
                 pb[1] > qc[1] \/ (pb[1] = qc[1] /\ pb[2] >= qc[2])

\* the first block of the passes before the current one whose checksum differs from
\* the sender's, as <<pass, block>>; <<>> when there is none
FirstErrorInPrevious(c) ==
    LET bad == {pb \in (1..(c.state - 1)) \X (0..c.keylen) :
                   /\ pb[2] < Len(At(c.another_checksum, pb[1]))
                   /\ At(At(c.checksum_table, pb[1]), pb[2])
                          # At(At(c.another_checksum, pb[1]), pb[2])}
    IN  IF bad = {} THEN <<>>
        ELSE CHOOSE pb \in bad : \A qc \in bad :
                 pb[1] < qc[1] \/ (pb[1] = qc[1] /\ pb[2] <= qc[2])

\* starts a binary search on FirstErrorInPrevious; its return value is
\* FirstErrorInPrevious(c) # <<>>
correct_error_in_previous(s, self) ==
    IF ~ok(s) THEN s
    ELSE LET c == s.c[self]
             pb == FirstErrorInPrevious(c)
         IN  IF pb = <<>> THEN s
             ELSE interactive_binary_search(s, self, pb[1], pb[2], 0,
                      Len(At(At(c.block_id_to_index, pb[1]), pb[2])))

\* variant: the bits below pos are dropped
flip_bit_at_pos_high_only(val, pos) ==
    LET high == val \div Pow2(pos)
        flipped == IF high % 2 = 0 THEN high + 1 ELSE high - 1
    IN  flipped * Pow2(pos)

\* variant: the bit at pos is set
flip_bit_at_pos_sets(val, pos) ==
    LET high == val \div Pow2(pos)
        set == IF high % 2 = 0 THEN high + 1 ELSE high
    IN  set * Pow2(pos) + (val % Pow2(pos))

\* (((val >> pos) ^ 1) << pos) + (((1 << pos) - 1) & val)
flip_bit_at_pos(val, pos) ==
    LET high == val \div Pow2(pos)
        flipped == IF high % 2 = 0 THEN high + 1 ELSE high - 1
    IN  flipped * Pow2(pos) + (val % Pow2(pos))

\* variant: the loop starts at pass 2
update_checksum_table_from_2(c, pos) ==
    [p \in 1..Len(c.checksum_table) |->
        IF p <= 2 THEN c.checksum_table[p]
        ELSE LET _block == At(c.index_to_block_id[p], pos) IN
             SetAt(c.checksum_table[p], _block, Xor(At(c.checksum_table[p], _block), 1))]

\* variant: only the checksum of the first pass is updated
update_checksum_table_pass_1(c, pos) ==
    [p \in 1..Len(c.checksum_table) |->
        IF p # 2 THEN c.checksum_table[p]
        ELSE LET _block == At(c.index_to_block_id[p], pos) IN
             SetAt(c.checksum_table[p], _block, Xor(At(c.checksum_table[p], _block), 1))]

\* for _pass in range(1, len(checksum_table)):
\*     checksum_table[_pass][index_to_block_id[_pass][pos]] ^= 1
update_checksum_table(c, pos) ==
    [p \in 1..Len(c.checksum_table) |->
        IF p = 1 THEN c.checksum_table[p]
        ELSE LET _block == At(c.index_to_block_id[p], pos) IN
             SetAt(c.checksum_table[p], _block, Xor(At(c.checksum_table[p], _block), 1))]

\* variant: a differing checksum starts the search and the next checksum is
\* requested at once
receive_checksum_pipelined(s, self, pass_id, block_id, checksum) ==
    IF ~ok(s) THEN s
    ELSE LET c == s.c[self]
             received == c.another_checksum
         IN  IF ~(\/ (pass_id = Len(received) - 1 /\ block_id = Len(At(received, pass_id)))
                  \/ (pass_id = Len(received) /\ block_id = 0))
             THEN raise(s, "receive_checksum does not receive checksum in order")
             ELSE IF ~InRange(received, pass_id) THEN raise(s, "IndexError")
             ELSE LET s1 == [s EXCEPT
                                !.c[self].another_checksum =
                                    SetAt(@, pass_id, Append(At(@, pass_id), checksum)),
                                !.log.appended = Append(@, <<pass_id, block_id>>)]
                  IN  IF \/ ~InRange(c.checksum_table, pass_id)
                         \/ ~InRange(At(c.checksum_table, pass_id), block_id)
                      THEN raise(s1, "IndexError")
                      ELSE IF At(At(c.checksum_table, pass_id), block_id) = checksum
                      THEN request_next_checksum(s1, self)
                      ELSE request_next_checksum(
                               interactive_binary_search(s1, self, pass_id, block_id, 0,
                                   Len(At(At(c.block_id_to_index, pass_id), block_id))), self)

receive_checksum(s, self, pass_id, block_id, checksum) ==
    IF ~ok(s) THEN s
    ELSE LET c == s.c[self]
             received == c.another_checksum
         IN  IF ~(\/ (pass_id = Len(received) - 1 /\ block_id = Len(At(received, pass_id)))
                  \/ (pass_id = Len(received) /\ block_id = 0))
             THEN raise(s, "receive_checksum does not receive checksum in order")
             ELSE IF ~InRange(received, pass_id) THEN raise(s, "IndexError")
             ELSE LET s1 == [s EXCEPT
                                !.c[self].another_checksum =
                                    SetAt(@, pass_id, Append(At(@, pass_id), checksum)),
                                !.log.appended = Append(@, <<pass_id, block_id>>)]
                  IN  IF \/ ~InRange(c.checksum_table, pass_id)
                         \/ ~InRange(At(c.checksum_table, pass_id), block_id)
                      THEN raise(s1, "IndexError")
                      ELSE IF At(At(c.checksum_table, pass_id), block_id) = checksum
                      THEN request_next_checksum(s1, self)
                      ELSE interactive_binary_search(s1, self, pass_id, block_id, 0,
                               Len(At(At(c.block_id_to_index, pass_id), block_id)))

\* variant: the checksum is taken over the whole block, not block[start:end]
send_for_binary_whole_block(s, self, pass_id, block_id, start, end) ==
    IF ~ok(s) THEN s
    ELSE LET c == s.c[self] IN
         IF \/ ~InRange(c.block_id_to_index, pass_id)
            \/ ~InRange(At(c.block_id_to_index, pass_id), block_id)
         THEN raise(s, "IndexError")
         ELSE LET block == At(At(c.block_id_to_index, pass_id), block_id)
                  checksum == XorBits(c.key, block)
              IN  send_by_cc(s, self,
                      Process(another(self), "receive_for_binary",
                              <<pass_id, block_id, start, end, checksum>>))

\* variant: the sender corrects the bit it is asked about
send_for_binary_flips(s, self, pass_id, block_id, start, end) ==
    IF ~ok(s) THEN s
    ELSE LET c == s.c[self] IN
         IF \/ ~InRange(c.block_id_to_index, pass_id)
            \/ ~InRange(At(c.block_id_to_index, pass_id), block_id)
         THEN raise(s, "IndexError")
         ELSE LET block == At(At(c.block_id_to_index, pass_id), block_id)
                  checksum == XorBits(c.key, Slice(block, start, end))
                  s1 == IF end - start = 1
                        THEN [s EXCEPT !.c[self].key = flip_bit_at_pos(@, At(block, start))]
                        ELSE s
              IN  send_by_cc(s1, self,
                      Process(another(self), "receive_for_binary",
                              <<pass_id, block_id, start, end, checksum>>))

send_for_binary(s, self, pass_id, block_id, start, end) ==
    IF ~ok(s) THEN s
    ELSE LET c == s.c[self] IN
         IF \/ ~InRange(c.block_id_to_index, pass_id)
            \/ ~InRange(At(c.block_id_to_index, pass_id), block_id)
         THEN raise(s, "IndexError")
         ELSE LET block == At(At(c.block_id_to_index, pass_id), block_id)
                  checksum == XorBits(c.key, Slice(block, start, end))
              IN  send_by_cc(s, self,
                      Process(another(self), "receive_for_binary",
                              <<pass_id, block_id, start, end, checksum>>))

\* variant: equal checksums are answered by the request of the next checksum
receive_for_binary_match_requests(s, self, pass_id, block_id, start, end, checksum) ==
    IF ~ok(s) THEN s
    ELSE LET c == s.c[self] IN
         IF \/ ~InRange(c.block_id_to_index, pass_id)
            \/ ~InRange(At(c.block_id_to_index, pass_id), block_id)
         THEN raise(s, "IndexError")
         ELSE LET block == At(At(c.block_id_to_index, pass_id), block_id)
                  _checksum == XorBits(c.key, Slice(block, start, end))
              IN  IF checksum = _checksum THEN request_next_checksum(s, self)
                  ELSE IF end - start # 1
                  THEN interactive_binary_search(s, self, pass_id, block_id, start, end)
                  ELSE LET pos == At(block, start)
                           s1 == [s EXCEPT
                                     !.c[self].key = flip_bit_at_pos(@, pos),
                                     !.c[self].checksum_table = update_checksum_table(c, pos),
                                     !.log.flips = Append(@, pos)]
                       IN  IF s1.c[self].state = 1 THEN request_next_checksum(s1, self)
                           ELSE IF FirstErrorInPrevious(s1.c[self]) # <<>>
                           THEN correct_error_in_previous(s1, self)
                           ELSE request_next_checksum(s1, self)

receive_for_binary(s, self, pass_id, block_id, start, end, checksum) ==
    IF ~ok(s) THEN s
    ELSE LET c == s.c[self] IN
         IF \/ ~InRange(c.block_id_to_index, pass_id)
            \/ ~InRange(At(c.block_id_to_index, pass_id), block_id)
         THEN raise(s, "IndexError")
         ELSE LET block == At(At(c.block_id_to_index, pass_id), block_id)
                  _checksum == XorBits(c.key, Slice(block, start, end))
              IN  IF checksum = _checksum THEN s
                  ELSE IF end - start # 1
                  THEN interactive_binary_search(s, self, pass_id, block_id, start, end)
                  ELSE LET pos == At(block, start)
                           s1 == [s EXCEPT
                                     !.c[self].key = flip_bit_at_pos(@, pos),
                                     !.c[self].checksum_table = update_checksum_table(c, pos),
                                     !.log.flips = Append(@, pos)]
                       IN  IF s1.c[self].state = 1 THEN request_next_checksum(s1, self)
                           ELSE IF FirstErrorInPrevious(s1.c[self]) # <<>>
                           THEN correct_error_in_previous(s1, self)
                           ELSE request_next_checksum(s1, self)

\* variant: no test of the role
receive_params_unchecked(s, self, k, keylen) ==
    IF ~ok(s) THEN s
    ELSE LET s1 == [s EXCEPT !.c[self].k = k,
                             !.c[self].keylen = keylen,
                             !.c[self].state = 1,
                             !.c[self].another_checksum = Append(@, <<>>)]
         IN  send_by_cc(s1, self,
                 Process(another(self), "generate_key", <<s1.c[self].keylen>>))

\* variant: the tables are built at the transition 0 -> 1
receive_params_builds(s, self, k, keylen) ==
    IF ~ok(s) THEN s
    ELSE IF s.c[self].role = 0
    THEN raise(s, "sender cannot receive parameters from receiver")
    ELSE LET s1 == [s EXCEPT !.c[self].k = k,
                             !.c[self].keylen = keylen,
                             !.c[self].state = 1,
                             !.c[self].another_checksum = Append(@, <<>>)]
         IN  send_by_cc(create_checksum_table(s1, self), self,
                 Process(another(self), "generate_key", <<s1.c[self].keylen>>))

receive_params(s, self, k, keylen) ==
    IF ~ok(s) THEN s
    ELSE IF s.c[self].role = 0
    THEN raise(s, "sender cannot receive parameters from receiver")
    ELSE LET s1 == [s EXCEPT !.c[self].k = k,
                             !.c[self].keylen = keylen,
                             !.c[self].state = 1,
                             !.c[self].another_checksum = Append(@, <<>>)]
         IN  send_by_cc(s1, self,
                 Process(another(self), "generate_key", <<s1.c[self].keylen>>))

\* k1: the value get_k1 returns for the measured error rate of the sample keys
receive_key(s, self, key, k1) ==
    IF ~ok(s) THEN s
    ELSE LET s1 == send_params([s EXCEPT !.c[self].k = k1], self)
         IN  IF ok(s1) THEN [s1 EXCEPT !.c[self].state = 1] ELSE s1

\* variant: the sender sends its sample key
get_key_from_BB84_sender_sends(s, self, key) ==
    IF ~ok(s) THEN s
    ELSE LET s1 == [s EXCEPT !.c[self].key = key]
             s2 == IF s1.c[self].state = 1 THEN create_checksum_table(s1, self) ELSE s1
             c == s2.c[self]
         IN  IF ~ok(s2) THEN s2
             ELSE IF c.state = 0 /\ c.role = 0 THEN send_key(s2, self)
             ELSE IF c.state = 1 /\ c.role = 0 THEN send_checksum(s2, self, c.state, 0)
             ELSE s2

\* variant: the sender waits for the request of its first checksum
get_key_from_BB84_waits(s, self, key) ==
    IF ~ok(s) THEN s
    ELSE LET s1 == [s EXCEPT !.c[self].key = key]
             s2 == IF s1.c[self].state = 1 THEN create_checksum_table(s1, self) ELSE s1
             c == s2.c[self]
         IN  IF ~ok(s2) THEN s2
             ELSE IF c.state = 0 /\ c.role = 1 THEN send_key(s2, self)
             ELSE IF c.state = 1 /\ c.role = 1
             THEN send_by_cc(s2, self, Process(another(self), "send_checksum", <<1, 0>>))
             ELSE s2

get_key_from_BB84(s, self, key) ==
    IF ~ok(s) THEN s
    ELSE LET s1 == [s EXCEPT !.c[self].key = key]
             s2 == IF s1.c[self].state = 1 THEN create_checksum_table(s1, self) ELSE s1
             c == s2.c[self]
         IN  IF ~ok(s2) THEN s2
             ELSE IF c.state = 0 /\ c.role = 1 THEN send_key(s2, self)
             ELSE IF c.state = 1 /\ c.role = 0 THEN send_checksum(s2, self, c.state, 0)
             ELSE s2

\* the BB84 oracle wired to both entities: it hands the next preset key to its
\* parent and then the peer oracle's next preset key to the peer
bb84_generate_key(s, self, keylen) ==
    IF ~ok(s) THEN s
    ELSE IF s.bb[self] = <<>> THEN raise(s, "IndexError")
    ELSE LET mine == s.bb[self][Len(s.bb[self])]
             s1 == get_key_from_BB84(
                       [s EXCEPT !.bb[self] = SubSeq(@, 1, Len(@) - 1)], self, mine)
             peer == another(self)
         IN  IF ~ok(s1) THEN s1
             ELSE IF s1.bb[peer] = <<>> THEN raise(s1, "IndexError")
             ELSE get_key_from_BB84(
                      [s1 EXCEPT !.bb[peer] = SubSeq(@, 1, Len(@) - 1)], peer,
                      s1.bb[peer][Len(s1.bb[peer])])

generate_key(s, self, keylen) ==
    IF ~ok(s) THEN s
    ELSE IF s.c[self].role = 1 THEN raise(s, "receiver cannot generate key")
    ELSE IF s.c[self].state = 0
    THEN bb84_generate_key([s EXCEPT !.c[self].keylen = keylen], self, 10000)
    ELSE bb84_generate_key(s, self, s.c[self].keylen)

\* a BB84 oracle that calls back later: get_key_from_BB84 is scheduled on each
\* party, d_self and d_peer after the request
bb84_generate_key_later(s, self, keylen, d_self, d_peer) ==
    IF ~ok(s) THEN s
    ELSE IF s.bb[self] = <<>> \/ s.bb[another(self)] = <<>> THEN raise(s, "IndexError")
    ELSE LET peer == another(self)
             mine == Event(now(s.tl) + d_self, self, "get_key_from_BB84",
                           <<s.bb[self][Len(s.bb[self])]>>)
             theirs == Event(now(s.tl) + d_peer, peer, "get_key_from_BB84",
                             <<s.bb[peer][Len(s.bb[peer])]>>)
         IN  [s EXCEPT !.bb = [r \in Roles |-> SubSeq(@[r], 1, Len(@[r]) - 1)],
                       !.tl = schedule(schedule(@, mine), theirs)]

generate_key_later(s, self, keylen, d_self, d_peer) ==
    IF ~ok(s) THEN s
    ELSE IF s.c[self].role = 1 THEN raise(s, "receiver cannot generate key")
    ELSE IF s.c[self].state = 0
    THEN bb84_generate_key_later([s EXCEPT !.c[self].keylen = keylen], self, 10000,
                                 d_self, d_peer)
    ELSE bb84_generate_key_later(s, self, s.c[self].keylen, d_self, d_peer)

-----------------------------------------------------------------------------
(* Memory (components/memory.py): the expire event it keeps in the timeline. *)
(* s.mem.expiration_event is the event the memory refers to, or NoEvent;     *)
(* s.mem.removed is history: every event the memory gave to remove_event,    *)
(* with whether the event list held it at that moment.                       *)

\* expiration_event = None: the reference to no event
NoEvent == Event(NONE, "memory", "none", <<>>)

NewMemory == [expiration_event |-> NoEvent, removed |-> <<>>]

\* the event as the event list holds it once schedule has pushed it
Scheduled(tl, event) ==
    [event EXCEPT !.seq = tl.events.seq, !.order = tl.event_counter]

\* self.timeline.remove_event(self.expiration_event)
remove_expiration_event(s) ==
    LET event == s.mem.expiration_event IN
    [s EXCEPT !.tl = remove_event(@, event),
              !.mem.removed = Append(@, [event |-> event,
                                         pending |-> event \in s.tl.events.data])]

reset(s) ==
    IF ~ok(s) THEN s
    ELSE IF s.mem.expiration_event # NoEvent
         THEN [remove_expiration_event(s) EXCEPT !.mem.expiration_event = NoEvent]
         ELSE s

\* reset, then notify: the observers are not part of the model
expire(s) == reset(s)

schedule_expiration(s) ==
    IF ~ok(s) THEN s
    ELSE LET s1 == IF s.mem.expiration_event # NoEvent
                   THEN remove_expiration_event(s) ELSE s
             event == Event(now(s1.tl) + CoherenceTime, "memory", "expire", <<>>)
         IN  [s1 EXCEPT !.tl = schedule(@, event),
                        !.mem.expiration_event = Scheduled(s1.tl, event)]

update_state(s) ==
    IF ~ok(s) THEN s
    ELSE IF CoherenceTime > 0 THEN schedule_expiration(s) ELSE s

\* update_event_time removes the event and schedules the same object again,
\* so expiration_event refers to the event at its new time
update_expire_time(s, time) ==
    IF ~ok(s) THEN s
    ELSE LET t == IF time > now(s.tl) THEN time ELSE now(s.tl)
             old == s.mem.expiration_event
         IN  IF old = NoEvent
             THEN IF t >= now(s.tl)
                  THEN [s EXCEPT !.tl = schedule(@, Event(t, "memory", "expire", <<>>))]
                  ELSE s
             ELSE [s EXCEPT !.tl = update_event_time(@, old, t),
                            !.mem.expiration_event =
                                Scheduled(remove_event(s.tl, old), [old EXCEPT !.time = t])]

-----------------------------------------------------------------------------
(* Timeline.run, one action per iteration of its loop *)

S == [tl |-> timeline, c |-> cascade, bb |-> bb84, err |-> error, log |-> log,
      mem |-> memory]

Commit(s) ==
    /\ timeline' = s.tl
    /\ cascade' = s.c
    /\ bb84' = s.bb
    /\ error' = s.err
    /\ log' = s.log
    /\ memory' = s.mem

\* sent: the messages given to send_by_cc; built: the roles that ran
\* create_checksum_table; appended: the (pass, block) of every checksum appended to
\* another_checksum; flips: the positions flipped; executed: the events run;
\* initial: the real keys the oracles were given (sender, receiver); injected: the
\* arguments of the receive_checksum call made from outside the run; popped: the
\* events run popped; removed: the events given to remove_event
NewLog(ks, kr) ==
    [sent |-> <<>>, built |-> <<>>, appended |-> <<>>, flips |-> <<>>,
     executed |-> <<>>, initial |-> <<ks, kr>>, injected |-> <<>>, popped |-> <<>>,
     removed |-> {}]

\* while len(self.events) > 0
Looping == timeline.is_running /\ error = NoError /\ timeline.events.data # {}

\* variant: no assertion on the time of the popped event
Popped_no_assert(s, event) ==
    LET s1 == [s EXCEPT !.tl.events = pop(@), !.log.popped = Append(@, event)] IN
    [s1 EXCEPT !.tl.time = event.time, !.log.executed = Append(@, event)]

\* variant: the event stays in the list
Popped_not_removed(s, event) ==
    LET s1 == [s EXCEPT !.log.popped = Append(@, event)] IN
    IF ~(s1.tl.time <= event.time) THEN raise(s1, "AssertionError")
    ELSE [s1 EXCEPT !.tl.time = event.time, !.log.executed = Append(@, event)]

\* variant: self.time is left as it was
Popped_keeps_time(s, event) ==
    LET s1 == [s EXCEPT !.tl.events = pop(@), !.log.popped = Append(@, event)] IN
    IF ~(s1.tl.time <= event.time) THEN raise(s1, "AssertionError")
    ELSE [s1 EXCEPT !.log.executed = Append(@, event)]

\* event = self.events.pop(); assert self.time <= event.time; self.time = event.time
Popped(s, event) ==
    LET s1 == [s EXCEPT !.tl.events = pop(@), !.log.popped = Append(@, event)] IN
    IF ~(s1.tl.time <= event.time) THEN raise(s1, "AssertionError")
    ELSE [s1 EXCEPT !.tl.time = event.time, !.log.executed = Append(@, event)]

\* the event run pops next
NextEvent == top(timeline.events)

\* the loop of run reaches event.process.run() for an event of this activation
Activates(method) ==
    /\ Looping
    /\ NextEvent.method = method
    /\ ~AtStop(timeline, NextEvent)

\* the run state in which the activation starts, and its receiver and arguments
Entered == Popped(S, NextEvent)
self == NextEvent.owner
args == NextEvent.args

\* the driver: schedule generate_key(KeyLen) on the sender at time 0 and call run()
Main ==
    /\ ~timeline.is_running
    /\ timeline.event_counter = 0
    /\ timeline' = [schedule(timeline, Event(0, 0, "generate_key", <<KeyLen>>))
                        EXCEPT !.is_running = TRUE]
    /\ UNCHANGED <<cascade, bb84, error, log, memory>>

\* event.process.run(): getattr(owner, activation)(*args)
GenerateKey ==
    /\ Activates("generate_key")
    /\ Commit(generate_key(Entered, self, args[1]))

ReceiveKey ==
    /\ Activates("receive_key")
    /\ \E k1 \in 1..MaxK : Commit(receive_key(Entered, self, args[1], k1))

ReceiveParams ==
    /\ Activates("receive_params")
    /\ Commit(receive_params(Entered, self, args[1], args[2]))

SendChecksum ==
    /\ Activates("send_checksum")
    /\ Commit(send_checksum(Entered, self, args[1], args[2]))

ReceiveChecksum ==
    /\ Activates("receive_checksum")
    /\ Commit(receive_checksum(Entered, self, args[1], args[2], args[3]))

SendForBinary ==
    /\ Activates("send_for_binary")
    /\ Commit(send_for_binary(Entered, self, args[1], args[2], args[3], args[4]))

ReceiveForBinary ==
    /\ Activates("receive_for_binary")
    /\ Commit(receive_for_binary(Entered, self, args[1], args[2], args[3], args[4], args[5]))

\* the loop ends on the empty event list
RunReturns ==
    /\ timeline.is_running
    /\ error = NoError
    /\ timeline.events.data = {}
    /\ timeline' = [timeline EXCEPT !.is_running = FALSE]
    /\ UNCHANGED <<cascade, bb84, error, log, memory>>

Keys == 0..(Pow2(KeyLen) - 1)

\* two Cascade entities on one timeline, each with an oracle holding its real key
\* and, on top of it, its sample key
Init ==
    /\ timeline = NewTimeline(Inf)
    /\ cascade = [r \in Roles |-> NewCascade(r)]
    /\ \E ks \in Keys, kr \in Keys :
        /\ bb84 = [r \in Roles |-> <<IF r = 0 THEN ks ELSE kr, 0>>]
        /\ log = NewLog(ks, kr)
    /\ error = NoError
    /\ memory = NewMemory

Next ==
    \/ Main
    \/ GenerateKey
    \/ ReceiveKey
    \/ ReceiveParams
    \/ SendChecksum
    \/ ReceiveChecksum
    \/ SendForBinary
    \/ ReceiveForBinary
    \/ RunReturns

Spec == Init /\ [][Next]_vars

\* The driver does call run, and run's loop goes on while the event list holds
\* an event.  The last conjunct is weak fairness of the loop iterations with
\* their enabling condition, Looping, written out.
FairSpec ==
    /\ Spec
    /\ WF_vars(Main)
    /\ WF_vars(RunReturns)
    /\ ([]<>(~Looping) \/ []<><<Looping>>_vars)

-----------------------------------------------------------------------------
(* A Cascade run interrupted between two events, once the receiver's tables *)
(* are built, by one receive_checksum call with arbitrary arguments on the  *)
(* receiver; the run is not resumed.                                        *)

InjectChecksum ==
    /\ Looping
    /\ log.injected = <<>>
    /\ Len(cascade[1].checksum_table) > 1
    /\ \E pass_id \in 0..(W + 1), block_id \in 0..KeyLen, checksum \in 0..1 :
          Commit(receive_checksum([S EXCEPT !.tl.is_running = FALSE,
                                            !.log.injected = <<pass_id, block_id, checksum>>],
                                  1, pass_id, block_id, checksum))

\* the sender's real key is all ones, as in the driver; the receiver's is any key
InjectInit ==
    /\ Init
    /\ log.initial[1] = Pow2(KeyLen) - 1

InjectNext == Next \/ InjectChecksum

InjectSpec == InjectInit /\ [][InjectNext]_vars

-----------------------------------------------------------------------------
(* A Cascade run in which, between two events, generate_key is called on    *)
(* the receiver or receive_params on the sender.                            *)

MisuseGenerateKey ==
    /\ Looping
    /\ log.injected = <<>>
    /\ Commit(generate_key([S EXCEPT !.log.injected = <<"generate_key", 1>>], 1, KeyLen))

MisuseReceiveParams ==
    /\ Looping
    /\ log.injected = <<>>
    /\ \E k \in 1..MaxK :
          Commit(receive_params([S EXCEPT !.log.injected = <<"receive_params", 0>>],
                                0, k, KeyLen))

MisuseNext == Next \/ MisuseGenerateKey \/ MisuseReceiveParams

MisuseSpec == InjectInit /\ [][MisuseNext]_vars

-----------------------------------------------------------------------------
(* A Cascade run on a key of LongKeyLen bits, long enough for a third pass   *)
(* of two blocks.  The sender holds the key of main, all ones; the receiver  *)
(* holds it with at most MaxErrors wrong bits.                               *)

LongMain ==
    /\ ~timeline.is_running
    /\ timeline.event_counter = 0
    /\ timeline' = [schedule(timeline, Event(0, 0, "generate_key", <<LongKeyLen>>))
                        EXCEPT !.is_running = TRUE]
    /\ UNCHANGED <<cascade, bb84, error, log, memory>>

\* (1 << n) - 1
Ones(n) == Pow2(n) - 1

WithErrors ==
    {kr \in 0..Ones(LongKeyLen) :
        Cardinality({i \in 0..(LongKeyLen - 1) : Bit(kr, i) = 0}) <= MaxErrors}

LongInit ==
    /\ timeline = NewTimeline(Inf)
    /\ cascade = [r \in Roles |-> NewCascade(r)]
    /\ \E kr \in WithErrors :
        /\ bb84 = [r \in Roles |-> <<IF r = 0 THEN Ones(LongKeyLen) ELSE kr, 0>>]
        /\ log = NewLog(Ones(LongKeyLen), kr)
    /\ error = NoError
    /\ memory = NewMemory

LongNext ==
    \/ LongMain
    \/ GenerateKey
    \/ ReceiveKey
    \/ ReceiveParams
    \/ SendChecksum
    \/ ReceiveChecksum
    \/ SendForBinary
    \/ ReceiveForBinary
    \/ RunReturns

LongSpec == LongInit /\ [][LongNext]_vars

\* The run of LongSpec on keys that differ almost everywhere: the receiver's key
\* agrees with the sender's in at most MaxCorrect bits.
MostlyWrong ==
    {kr \in 0..Ones(LongKeyLen) :
        Cardinality({i \in 0..(LongKeyLen - 1) : Bit(kr, i) = 1}) <= MaxCorrect}

HeavyInit ==
    /\ timeline = NewTimeline(Inf)
    /\ cascade = [r \in Roles |-> NewCascade(r)]
    /\ \E kr \in MostlyWrong :
        /\ bb84 = [r \in Roles |-> <<IF r = 0 THEN Ones(LongKeyLen) ELSE kr, 0>>]
        /\ log = NewLog(Ones(LongKeyLen), kr)
    /\ error = NoError
    /\ memory = NewMemory

HeavySpec == HeavyInit /\ [][LongNext]_vars

-----------------------------------------------------------------------------
(* A Cascade run with a BB84 oracle whose callbacks come later: asked for a  *)
(* key, the oracle schedules get_key_from_BB84 on each party as an event of  *)
(* its own, after a delay of its choice.                                     *)

OracleDelays == {0, MaxOracleDelay}

GenerateKeyLater ==
    /\ Activates("generate_key")
    /\ \E d_self \in OracleDelays, d_peer \in OracleDelays :
          Commit(generate_key_later(Entered, self, args[1], d_self, d_peer))

GetKeyFromBB84 ==
    /\ Activates("get_key_from_BB84")
    /\ Commit(get_key_from_BB84(Entered, self, args[1]))

OracleNext ==
    \/ Main
    \/ GenerateKeyLater
    \/ GetKeyFromBB84
    \/ ReceiveKey
    \/ ReceiveParams
    \/ SendChecksum
    \/ ReceiveChecksum
    \/ SendForBinary
    \/ ReceiveForBinary
    \/ RunReturns

OracleSpec == InjectInit /\ [][OracleNext]_vars

-----------------------------------------------------------------------------
(* The kernel on its own: a driver and the processes of a plain entity      *)
(* schedule, remove and re-time events and stop the run.                    *)

Times == 0..MaxTime
Methods == {"idle", "spawn", "halt", "cancel", "retime"}
Pending == timeline.events.data

\* what the process of an event does when it runs; t and f are its choices: the
\* time and the pending event it works on
entity_run(s, event, t, f) ==
    IF ~ok(s) THEN s
    ELSE CASE event.method = "idle" -> s
           [] event.method = "spawn" ->
                  [s EXCEPT !.tl = schedule(@, Event(t, "entity", "idle", <<>>))]
           [] event.method = "halt" -> [s EXCEPT !.tl = stop(@)]
           [] event.method = "cancel" ->
                  [s EXCEPT !.tl = remove_event(@, f), !.log.removed = @ \cup {f}]
           [] event.method = "retime" -> [s EXCEPT !.tl = update_event_time(@, f, t)]

\* one iteration of run's loop on an event of the plain entity
Run(method, t, f) ==
    /\ Looping
    /\ LET event == top(timeline.events) IN
        /\ event.method = method
        /\ ~AtStop(timeline, event)
        /\ Commit(entity_run(Popped(S, event), event, t, f))

Idle ==
    /\ Looping
    /\ Run("idle", 0, NONE)

Spawn ==
    /\ Looping
    /\ timeline.event_counter < MaxEvents
    /\ \E t \in Times : Run("spawn", t, NONE)

Halt ==
    /\ Looping
    /\ Run("halt", 0, NONE)

Cancel ==
    /\ Looping
    /\ \E f \in Pending \ {top(timeline.events)} : Run("cancel", 0, f)

Retime ==
    /\ Looping
    /\ timeline.event_counter < MaxEvents
    /\ \E t \in Times : \E f \in Pending \ {top(timeline.events)} : Run("retime", t, f)

\* the popped event has time >= stop_time: it is scheduled again and run returns
RunStops ==
    /\ Looping
    /\ LET event == top(timeline.events) IN
        /\ AtStop(timeline, event)
        /\ timeline' = [schedule([timeline EXCEPT !.events = pop(@)], event)
                            EXCEPT !.is_running = FALSE]
        /\ log' = [log EXCEPT !.popped = Append(@, event)]
    /\ UNCHANGED <<cascade, bb84, error, memory>>

\* the driver schedules an event while the timeline is not running
DriverSchedules ==
    /\ ~timeline.is_running
    /\ error = NoError
    /\ timeline.event_counter < MaxEvents
    /\ \E t \in Times, m \in Methods :
          timeline' = schedule(timeline, Event(t, "entity", m, <<>>))
    /\ UNCHANGED <<cascade, bb84, error, log, memory>>

\* the driver calls run(); a rerun after a stop schedules the stopped event again
DriverRuns ==
    /\ ~timeline.is_running
    /\ error = NoError
    /\ timeline.event_counter < MaxEvents + MaxReruns
    /\ timeline' = [timeline EXCEPT !.is_running = TRUE]
    /\ UNCHANGED <<cascade, bb84, error, log, memory>>

KernelInit ==
    /\ \E stop_time \in {Inf} \cup (1..MaxTime) : timeline = NewTimeline(stop_time)
    /\ cascade = [r \in Roles |-> NewCascade(r)]
    /\ bb84 = [r \in Roles |-> <<>>]
    /\ error = NoError
    /\ log = NewLog(0, 0)
    /\ memory = NewMemory

KernelNext ==
    \/ DriverSchedules
    \/ DriverRuns
    \/ Idle
    \/ Spawn
    \/ Halt
    \/ Cancel
    \/ Retime
    \/ RunStops
    \/ RunReturns

KernelSpec == KernelInit /\ [][KernelNext]_vars

\* The timeline with update_event_time among events of equal time: the driver
\* schedules plain events and events whose process calls update_event_time, and
\* a process may call it once all MaxEvents events are scheduled.
RetimeMethods == {"idle", "retime"}

DriverPlans ==
    /\ ~timeline.is_running
    /\ error = NoError
    /\ timeline.event_counter < MaxEvents
    /\ \E t \in Times, m \in RetimeMethods :
          timeline' = schedule(timeline, Event(t, "entity", m, <<>>))
    /\ UNCHANGED <<cascade, bb84, error, log, memory>>

RetimeAmongOthers ==
    /\ Looping
    /\ timeline.event_counter < MaxEvents + 1
    /\ \E t \in Times : \E f \in Pending \ {top(timeline.events)} : Run("retime", t, f)

RetimeInit ==
    /\ timeline = NewTimeline(Inf)
    /\ cascade = [r \in Roles |-> NewCascade(r)]
    /\ bb84 = [r \in Roles |-> <<>>]
    /\ error = NoError
    /\ log = NewLog(0, 0)
    /\ memory = NewMemory

RetimeNext ==
    \/ DriverPlans
    \/ DriverRuns
    \/ Idle
    \/ RetimeAmongOthers
    \/ RunReturns

RetimeSpec == RetimeInit /\ [][RetimeNext]_vars

\* A Memory on the timeline: the driver schedules calls of update_state,
\* update_expire_time and reset on the memory, in the order of their times, and
\* runs the timeline; the expire events are the memory's own.
MemoryMethods == {"update_state", "update_expire_time", "reset"}

DriverCalls ==
    /\ ~timeline.is_running
    /\ error = NoError
    /\ timeline.event_counter < MaxEvents
    /\ \E t \in Times, m \in MemoryMethods :
          /\ \A e \in Pending : e.time <= t
          /\ \E time \in IF m = "update_expire_time" THEN Times ELSE {NONE} :
                timeline' = schedule(timeline,
                                Event(t, "memory", m,
                                      IF time = NONE THEN <<>> ELSE <<time>>))
    /\ UNCHANGED <<cascade, bb84, error, log, memory>>

UpdateState ==
    /\ Activates("update_state")
    /\ Commit(update_state(Entered))

UpdateExpireTime ==
    /\ Activates("update_expire_time")
    /\ Commit(update_expire_time(Entered, args[1]))

Reset ==
    /\ Activates("reset")
    /\ Commit(reset(Entered))

Expire ==
    /\ Activates("expire")
    /\ Commit(expire(Entered))

MemoryInit ==
    /\ timeline = NewTimeline(Inf)
    /\ cascade = [r \in Roles |-> NewCascade(r)]
    /\ bb84 = [r \in Roles |-> <<>>]
    /\ error = NoError
    /\ log = NewLog(0, 0)
    /\ memory = NewMemory

MemoryNext ==
    \/ DriverCalls
    \/ DriverRuns
    \/ UpdateState
    \/ UpdateExpireTime
    \/ Reset
    \/ Expire
    \/ RunReturns

MemorySpec == MemoryInit /\ [][MemoryNext]_vars

-----------------------------------------------------------------------------
(* Vocabulary of the properties *)

sender == cascade[0]
receiver == cascade[1]

\* the passes a party has constructed: the indices 1.. of its checksum_table
Passes(c) == 1..(Len(c.checksum_table) - 1)
Blocks(c, p) == 0..(Len(At(c.checksum_table, p)) - 1)

\* run() has returned
Returned == ~timeline.is_running /\ timeline.event_counter > 0

\* the bit positions in which two keys differ
Diff(a, b) == {i \in 0..(KeyLen - 1) : Bit(a, i) # Bit(b, i)}
InitialDiff == Diff(log.initial[1], log.initial[2])

\* reconciliation is complete: the receiver is past its last constructed pass and
\* no event is pending
Complete ==
    /\ Returned
    /\ timeline.events.data = {}
    /\ receiver.state > Len(receiver.checksum_table) - 1

-----------------------------------------------------------------------------
(* Properties of the Cascade run *)

\* C1: on the receiver, in every state of a run, checksum_table[p][b] is the XOR
\* of the current key bits at the indices of block_id_to_index[p][b], for every
\* constructed pass p and every block b
ParityInvariant ==
    \A p \in Passes(receiver) : \A b \in Blocks(receiver, p) :
        At(At(receiver.checksum_table, p), b)
            = XorBits(receiver.key, At(At(receiver.block_id_to_index, p), b))

\* two bits have been flipped on a receiver with more than one pass
ParityAfterFlips == Len(log.flips) >= 2 /\ Len(receiver.checksum_table) > 2

\* C2, as stated: whenever reconciliation is complete the receiver's key equals the
\* sender's key
CompleteKeysEqual == Complete => receiver.key = sender.key

\* the blocks of pass 1 hold at most one differing bit of the initial keys each
OneErrorPerFirstBlock ==
    \A b \in 0..KeyLen :
        Cardinality({i \in InitialDiff : i \div receiver.k = b}) <= 1

\* C2, amended: when reconciliation is complete and no block of pass 1 held more
\* than one bit in which the initial keys differ, the receiver's key equals the
\* sender's key
CompleteKeysEqualOneErrorPerBlock ==
    (Complete /\ OneErrorPerFirstBlock) => receiver.key = sender.key

\* a complete run that corrected two bits lying in different blocks of pass 1
TwoBlocksCorrected ==
    /\ Complete
    /\ OneErrorPerFirstBlock
    /\ Cardinality(InitialDiff) = 2
    /\ receiver.key = sender.key

\* C3: when the initial keys differ in exactly one position i, after the run the
\* keys are equal, the receiver flipped exactly once, at i, and the sender's key is
\* the one it was given
SingleError ==
    \A i \in 0..(KeyLen - 1) :
        (Complete /\ InitialDiff = {i}) =>
            /\ receiver.key = sender.key
            /\ log.flips = <<i>>
            /\ sender.key = log.initial[1]

\* a complete run on keys that differed in bit 2 only, in blocks of two bits
SingleErrorCorrected ==
    Complete /\ InitialDiff = {2} /\ receiver.k = 2 /\ log.flips = <<2>>

\* both parties are past their last constructed pass and nothing is pending
Finished ==
    /\ Complete
    /\ sender.state > Len(sender.checksum_table) - 1
    /\ Len(receiver.checksum_table) = W + 1 => receiver.state = W + 1
    /\ Len(sender.checksum_table) = W + 1 => sender.state = W + 1

\* the sender is asked for a checksum of a pass beyond its last one
BeyondLast ==
    /\ Looping
    /\ top(timeline.events).method = "send_checksum"
    /\ top(timeline.events).args[1] > Len(sender.checksum_table) - 1

\* C4: every run reaches a state where nothing is pending and both parties are
\* past their last constructed pass, and the sender sends nothing in answer to the
\* request for a pass beyond the last one
Terminates ==
    /\ <>Finished
    /\ [][BeyondLast =>
            /\ log'.sent = log.sent
            /\ timeline'.events.data = timeline.events.data \ {top(timeline.events)}]_vars

\* a finished run in which all W passes were constructed
FinishedAllPasses == Finished /\ sender.state = W + 1 /\ Len(log.flips) >= 1

\* C5: the (pass, block) pairs of the checksums appended to another_checksum start
\* at (1, 0) and each next one is the next block of the same pass, or block 0 of
\* the next pass right after the last block of the pass
AppendOrder ==
    \A n \in 1..Len(log.appended) :
        LET pb == log.appended[n] IN
        IF n = 1 THEN pb = <<1, 0>>
        ELSE LET qc == log.appended[n - 1] IN
             \/ pb[1] = qc[1] /\ pb[2] = qc[2] + 1
             \/ /\ pb[1] = qc[1] + 1
                /\ pb[2] = 0
                /\ qc[2] = Len(At(receiver.checksum_table, qc[1])) - 1

\* checksums of two blocks of pass 1 and of a block of pass 2 have been appended
AppendedAcrossPasses ==
    \E n \in 3..Len(log.appended) :
        log.appended[n] = <<2, 0>> /\ log.appended[n - 1][2] >= 1

EqualKeysNoSearch ==
    (log.initial[1] = log.initial[2]) =>
        /\ log.flips = <<>>
        /\ \A n \in 1..Len(log.sent) :
               log.sent[n].method \notin {"send_for_binary", "receive_for_binary"}
        /\ Complete =>
               /\ sender.key = log.initial[1]
               /\ receiver.key = log.initial[2]
               /\ \A p \in Passes(receiver) :
                      At(receiver.another_checksum, p) = At(receiver.checksum_table, p)

\* a complete run on equal keys over all W passes
EqualKeysComplete ==
    /\ log.initial[1] = log.initial[2]
    /\ Complete
    /\ Len(receiver.checksum_table) = W + 1
    /\ Len(log.appended) > W

\* the receiver's pass being filled is complete: one checksum per block received
PassComplete(c) ==
    /\ InRange(c.checksum_table, c.state)
    /\ Len(At(c.another_checksum, c.state)) = Len(At(c.checksum_table, c.state))

\* C6: receive_checksum(p, b, cs) is accepted, and cs appended to
\* another_checksum[p], when p is the pass being filled and b the number of
\* checksums received for it, or when b = 0, p is the next pass and the pass being
\* filled is complete; on any other (p, b) it raises the protocol error and appends
\* nothing
ChecksumAcceptedInOrderOnly ==
    [][(log.injected = <<>> /\ log'.injected # <<>>) =>
          LET p == log'.injected[1]
              b == log'.injected[2]
              cs == log'.injected[3]
              before == receiver.another_checksum
              after == receiver'.another_checksum
              allowed ==
                  \/ p = receiver.state /\ b = Len(At(before, p))
                  \/ b = 0 /\ p = receiver.state + 1 /\ PassComplete(receiver)
          IN  /\ allowed =>
                     /\ InRange(after, p)
                     /\ At(after, p) = Append(IF InRange(before, p) THEN At(before, p)
                                              ELSE <<>>, cs)
              /\ ~allowed =>
                     /\ error' = "receive_checksum does not receive checksum in order"
                     /\ after = before]_vars

-----------------------------------------------------------------------------
(* Properties of the kernel *)

LastExecuted(l) == l.executed[Len(l.executed)]
Executes == Len(log'.executed) = Len(log.executed) + 1

Pops == Len(log'.popped) = Len(log.popped) + 1
LastPopped(l) == l.popped[Len(l.popped)]

\* C9: whatever the pushes and pops, the popped events come out in non-decreasing
\* (time, insertion sequence) order, and pop returns a pending event of minimal time
PoppedInOrder ==
    [][Pops =>
          LET event == LastPopped(log') IN
          /\ event \in Pending
          /\ \A f \in Pending : event.time <= f.time
          /\ log.popped # <<>> => Before(LastPopped(log), event)]_vars

\* C9, made precise: pop returns the pending event that is minimal in (time,
\* insertion sequence), and the events run executes come out in increasing
\* (time, insertion sequence) order
PopOrder ==
    [][/\ Pops =>
             LET event == LastPopped(log') IN
             /\ event \in Pending
             /\ \A f \in Pending \ {event} : Before(event, f)
       /\ Executes =>
             (log.executed # <<>> => Before(LastExecuted(log), LastExecuted(log')))]_vars

\* three events have run at increasing times, not in the order of their scheduling
ExecutedOutOfScheduleOrder ==
    /\ Len(log.executed) >= 3
    /\ log.executed[1].time < log.executed[2].time
    /\ log.executed[2].time < log.executed[3].time
    /\ log.executed[1].order > log.executed[3].order

\* C10: an event that is executed was scheduled before every other event pending
\* for the same time, so events of equal time run in the order of their scheduling
\* and an event scheduled for a time runs after those already pending for it
TieOrder ==
    [][Executes =>
          LET event == LastExecuted(log') IN
          \A f \in Pending : f.time = event.time => event.order <= f.order]_vars

\* a running process scheduled an event at now: it ran after the event that was
\* already pending for that time
ScheduledAtNowRunsLast ==
    /\ Len(log.executed) >= 3
    /\ log.executed[1].method = "spawn"
    /\ log.executed[1].time = log.executed[2].time
    /\ log.executed[2].time = log.executed[3].time
    /\ log.executed[2].order = 1
    /\ log.executed[3].order = 2

\* C11: an event removed with remove_event while it was pending is never
\* executed, in the run that removed it or in a later one
RemovedNeverExecuted ==
    \A n \in 1..Len(log.executed) : log.executed[n] \notin log.removed

\* an event was removed in one run; a later run executed an event scheduled after
\* the removed one and returned
RemovedThenLaterRun ==
    /\ ~timeline.is_running
    /\ Pending = {}
    /\ Len(log.executed) >= 2
    /\ \E f \in log.removed : log.executed[Len(log.executed)].order > f.order

\* a step of run that pops an event at or past stop_time and returns
Stops == Pops /\ ~Executes /\ error' = NoError

\* C12: when run stops on a popped event of time >= stop_time, the event is not
\* executed, it is pending again after the step, and it is the event the list
\* yields next, also when other events of the same time are pending
StoppedEventStaysNext ==
    [][Stops =>
          LET event == LastPopped(log')
              back == timeline'.events.data \ (Pending \ {event})
          IN  /\ log'.executed = log.executed
              /\ Cardinality(back) = 1
              /\ \A e \in back :
                    /\ e.time = event.time
                    /\ e.method = event.method
                    /\ top(timeline'.events) = e]_vars

\* C13: now() never decreases; an executed event has a time greater than or equal
\* to that of the event executed before it, and now() is the time of the event
\* being executed
NowMonotonic ==
    [][/\ now(timeline') >= now(timeline)
       /\ Executes =>
             /\ now(timeline') = LastExecuted(log').time
             /\ log.executed # <<>> =>
                    LastExecuted(log).time <= LastExecuted(log').time]_vars

\* three events have run, the second later than the first and the third at the
\* time of the second
NowAdvancedAndStayed ==
    /\ Len(log.executed) >= 3
    /\ log.executed[1].time < log.executed[2].time
    /\ log.executed[2].time = log.executed[3].time
    /\ now(timeline) = log.executed[3].time

\* C14: no scheduled event is executed twice, and an event that has been executed
\* is not pending
ExecutedAtMostOnce ==
    /\ \A i, j \in 1..Len(log.executed) : i # j => log.executed[i] # log.executed[j]
    /\ \A n \in 1..Len(log.executed) : log.executed[n] \notin Pending

\* every event scheduled has run once, one of them an event whose process
\* scheduled another
AllExecutedOnce ==
    /\ Pending = {}
    /\ Len(log.executed) >= 3
    /\ Len(log.executed) = timeline.event_counter
    /\ \E n \in 1..Len(log.executed) : log.executed[n].method = "spawn"

\* C15: scheduling an event of a time earlier than now fails at the schedule call:
\* no event earlier than now is ever added to the event list
PastScheduleRefused ==
    [][\A e \in timeline'.events.data \ Pending : e.time >= now(timeline')]_vars

\* C15, made precise: schedule adds the event it is given to the list, whatever
\* its time, and raises nothing; an event earlier than now fails the assertion of
\* run when it is popped, and is then neither executed nor made the current time
PastScheduleFailsAtPop ==
    [][/\ timeline'.event_counter = timeline.event_counter + 1 =>
             /\ \E e \in timeline'.events.data : e.order = timeline.event_counter
             /\ error' = NoError
       /\ (Pops /\ LastPopped(log').time < now(timeline)) =>
             /\ error' = "AssertionError"
             /\ ~Executes
             /\ now(timeline') = now(timeline)]_vars

\* run has failed on an event scheduled for a time earlier than now
FailedOnPastEvent ==
    /\ error = "AssertionError"
    /\ log.popped # <<>>
    /\ LastPopped(log).time < now(timeline)
    /\ LastPopped(log) \notin Pending

\* the loop of run is at its test, and the list is empty or its earliest event has
\* a time >= stop_time
Running == timeline.is_running /\ error = NoError
MustReturn ==
    \/ Pending = {}
    \/ timeline.stop_time # Inf /\ top(timeline.events).time >= timeline.stop_time

StopEndsRun ==
    [][/\ (Executes /\ LastExecuted(log').method = "halt") =>
             /\ timeline'.stop_time = now(timeline')
             /\ timeline'.events.data = Pending \ {LastExecuted(log')}
       /\ (Running /\ timeline.stop_time # Inf /\ timeline.stop_time <= now(timeline)) =>
             /\ ~Executes
             /\ error' = NoError =>
                    /\ ~timeline'.is_running
                    /\ Cardinality(timeline'.events.data) = Cardinality(Pending)
                    /\ Pending # {} =>
                           Pending \ {top(timeline.events)} \subseteq timeline'.events.data]_vars

\* a process called stop() while an event of the current time was pending: run
\* returned and that event is pending
StoppedBeforeEventAtNow ==
    /\ ~timeline.is_running
    /\ error = NoError
    /\ log.executed # <<>>
    /\ LastExecuted(log).method = "halt"
    /\ timeline.stop_time = now(timeline)
    /\ Len(log.popped) > Len(log.executed)
    /\ \E e \in Pending : e.time = now(timeline)

-----------------------------------------------------------------------------
(* Properties of the channel and of the set-up *)

\* the messages sent to a role and the messages it has processed, in a history l
\* (the event of the driver, the first scheduled, is not a message)
SentTo(l, r) == SelectSeq(l.sent, LAMBDA m : m.from = another(r))
ProcessedBy(l, r) == SelectSeq(l.executed, LAMBDA e : e.owner = r /\ e.order > 0)

\* C18: each entity processes the messages of its peer in the order in which the
\* peer sent them: the n-th message it processes is the n-th message sent to it
Fifo ==
    [][Executes =>
          LET event == LastExecuted(log')
              n == Len(ProcessedBy(log', event.owner))
              sent == SentTo(log, event.owner)
          IN  event.order > 0 =>
                  /\ n <= Len(sent)
                  /\ sent[n].method = event.method
                  /\ sent[n].args = event.args]_vars

\* the sender has processed the two requests of a binary search step, sent at the
\* same time, one after the other
BothHalvesProcessed ==
    \E n \in 1..(Len(log.executed) - 1) :
        /\ log.executed[n].method = "send_for_binary"
        /\ log.executed[n + 1].method = "send_for_binary"
        /\ log.executed[n].time = log.executed[n + 1].time
        /\ log.executed[n].args # log.executed[n + 1].args

\* C19: generate_key on the receiver and receive_params on the sender raise their
\* error, schedule and send nothing and leave both entities as they were
RoleMismatchRaises ==
    [][(log.injected = <<>> /\ log'.injected # <<>>) =>
          /\ error' = IF log'.injected[1] = "generate_key"
                      THEN "receiver cannot generate key"
                      ELSE "sender cannot receive parameters from receiver"
          /\ cascade' = cascade
          /\ timeline' = timeline
          /\ bb84' = bb84
          /\ log'.sent = log.sent]_vars

\* generate_key was called on the receiver after it had built its tables
ReceiverAskedToGenerate ==
    /\ log.injected = <<"generate_key", 1>>
    /\ error = "receiver cannot generate key"
    /\ Len(receiver.checksum_table) > 1

\* the step executes an event of this activation on this role
Handles(method, r) ==
    /\ Executes
    /\ LastExecuted(log').method = method
    /\ LastExecuted(log').owner = r

\* C20: k is assigned on the sender only by receive_key and on the receiver only by
\* receive_params, which stores the sender's k and keylen; a step in which a party
\* builds its tables starts and ends with both parties in state 1 and holding the
\* same k and keylen
KFromSender ==
    [][/\ sender'.k # sender.k => Handles("receive_key", 0)
       /\ receiver'.k # receiver.k =>
             /\ Handles("receive_params", 1)
             /\ receiver'.k = sender.k
             /\ receiver'.keylen = sender.keylen
       /\ log'.built # log.built =>
             /\ sender.state = 1 /\ receiver.state = 1
             /\ sender'.state = 1 /\ receiver'.state = 1
             /\ sender.k = receiver.k /\ sender.keylen = receiver.keylen
             /\ sender'.k = sender.k /\ receiver'.k = receiver.k
             /\ sender'.keylen = sender.keylen /\ receiver'.keylen = receiver.keylen]_vars

\* both parties have built their tables with the largest k
BothBuiltWithSameK ==
    /\ Len(log.built) = 2
    /\ sender.k = MaxK
    /\ receiver.k = MaxK
    /\ Len(sender.checksum_table) > 1
    /\ Len(receiver.checksum_table) > 1

\* C21: the sample key is sent by the sender (role 0) and handled by the
\* receive_key of the receiver (role 1)
SenderSendsSampleKey ==
    /\ \A n \in 1..Len(log.sent) :
          log.sent[n].method = "receive_key" => log.sent[n].from = 0
    /\ \A n \in 1..Len(log.executed) :
          log.executed[n].method = "receive_key" => log.executed[n].owner = 1

\* C21, made precise: the sample key is sent by the receiver (role 1), and it is
\* the receive_key of the sender (role 0) that handles it
ReceiverSendsSampleKey ==
    /\ \A n \in 1..Len(log.sent) :
          log.sent[n].method = "receive_key" => log.sent[n].from = 1
    /\ \A n \in 1..Len(log.executed) :
          log.executed[n].method = "receive_key" => log.executed[n].owner = 0

\* the sample key has been sent and handled, and the sender has left state 0
SampleKeyHandled ==
    /\ \E n \in 1..Len(log.executed) : log.executed[n].method = "receive_key"
    /\ sender.state >= 1
    /\ sender.k >= 1

\* the number of times party r has built its tables
Built(l, r) == Cardinality({n \in 1..Len(l.built) : l.built[n] = r})

\* the number of blocks of each pass of a checksum table
Shape(c) == [p \in 1..Len(c.checksum_table) |-> Len(c.checksum_table[p])]

\* C22: the receiver builds its tables exactly once, in the step that takes it from
\* state 0 to state 1, and that step comes with its real key; no later step
\* rebuilds or extends them
TablesBuiltAtTransition ==
    [][/\ Built(log', 1) <= 1
       /\ Built(log', 1) > Built(log, 1) <=> (receiver.state = 0 /\ receiver'.state = 1)
       /\ Built(log', 1) > Built(log, 1) => receiver'.key = log.initial[2]
       /\ Built(log, 1) = 1 =>
             /\ receiver'.index_to_block_id = receiver.index_to_block_id
             /\ receiver'.block_id_to_index = receiver.block_id_to_index
             /\ Shape(receiver') = Shape(receiver)]_vars

\* C22, made precise: the receiver goes from state 0 to state 1 in receive_params,
\* before its real key has arrived, and builds nothing there; it builds its tables
\* exactly once, in state 1, in the step in which the oracle delivers its real key;
\* no later step rebuilds or extends them
TablesBuiltOnRealKey ==
    [][/\ Built(log', 1) <= 1
       /\ (receiver.state = 0 /\ receiver'.state = 1) =>
             /\ Handles("receive_params", 1)
             /\ Built(log', 1) = 0
             /\ bb84'[1] # <<>>
             /\ receiver'.key # log.initial[2] \/ log.initial[2] = 0
       /\ Built(log', 1) > Built(log, 1) =>
             /\ Handles("generate_key", 0)
             /\ receiver.state = 1 /\ receiver'.state = 1
             /\ bb84'[1] = <<>>
             /\ receiver'.key = log.initial[2]
       /\ Built(log, 1) = 1 =>
             /\ receiver'.index_to_block_id = receiver.index_to_block_id
             /\ receiver'.block_id_to_index = receiver.block_id_to_index
             /\ Shape(receiver') = Shape(receiver)]_vars

\* the receiver has built its tables once, has corrected bits since, and the run
\* is complete
BuiltOnceAndCorrected ==
    /\ Built(log, 1) = 1
    /\ Len(log.flips) >= 2
    /\ Len(receiver.checksum_table) > 2
    /\ Complete

Range(l) == {l[n] : n \in 1..Len(l)}

\* the blocks of pass p of party c partition its key indices: every index is in
\* the block index_to_block_id names, once, and in no other block, and the blocks
\* hold nothing but key indices
PartitionOfIndices(c, p) ==
    LET blocks == At(c.block_id_to_index, p)
        relation == At(c.index_to_block_id, p)
    IN  /\ Len(relation) = c.keylen
        /\ \A i \in 0..(c.keylen - 1) :
              /\ InRange(blocks, At(relation, i))
              /\ \A b \in 0..(Len(blocks) - 1) :
                    Cardinality({j \in 1..Len(At(blocks, b)) : At(blocks, b)[j] = i})
                        = IF b = At(relation, i) THEN 1 ELSE 0
        /\ \A b \in 0..(Len(blocks) - 1) : Range(At(blocks, b)) \subseteq 0..(c.keylen - 1)

\* C24: for every constructed pass p of a party, the blocks of block_id_to_index[p]
\* partition the key indices as index_to_block_id[p] says, with no None entry:
\* no pass is constructed at the start, and every step that writes the index
\* tables of a party leaves them so
BlocksPartitionIndices ==
    [][\A r \in Roles :
          (\/ cascade'[r].index_to_block_id # cascade[r].index_to_block_id
           \/ cascade'[r].block_id_to_index # cascade[r].block_id_to_index) =>
              \A p \in 1..(Len(cascade'[r].index_to_block_id) - 1) :
                  PartitionOfIndices(cascade'[r], p)]_vars

\* a shuffled pass has been built whose last block is shorter than block_size
ShortLastBlockBuilt ==
    /\ Len(log.built) = 2
    /\ Len(receiver.index_to_block_id) > 2
    /\ LET blocks == At(receiver.block_id_to_index, 2) IN
       /\ Len(blocks) >= 2
       /\ Len(At(blocks, Len(blocks) - 1)) < 2 * receiver.k

\* n = ceil(a / b), for b > 0
IsCeilDiv(n, a, b) == n * b >= a /\ (n - 1) * b < a

\* C25: for every pass p of a party's checksum_table, len(checksum_table[p]) is
\* ceil(keylen / (k * 2^(p-1))) and is the number of blocks of block_id_to_index[p]
ChecksumPerBlock ==
    \A r \in Roles : \A p \in Passes(cascade[r]) :
        LET c == cascade[r] IN
        /\ c.k > 0
        /\ IsCeilDiv(Len(At(c.checksum_table, p)), c.keylen, c.k * Pow2(p - 1))
        /\ InRange(c.block_id_to_index, p)
        /\ Len(At(c.checksum_table, p)) = Len(At(c.block_id_to_index, p))

\* both parties hold checksums for three passes of different numbers of blocks
ThreePassesOfChecksums ==
    /\ Len(log.built) = 2
    /\ Len(sender.checksum_table) = 4
    /\ Len(receiver.checksum_table) = 4
    /\ Len(At(receiver.checksum_table, 1)) > Len(At(receiver.checksum_table, 2))
    /\ Len(At(receiver.checksum_table, 2)) > Len(At(receiver.checksum_table, 3))

\* C26: update_event_time(e, t) has the effect of remove_event(e) followed by
\* schedule of e at time t: the event loses its old place and is pending once, at
\* time t and behind every pending event (a fresh insertion sequence number, so
\* ties at t go to the events already there); run executes pending events only,
\* at their time, and no insertion sequence number is used again, so e never
\* fires at its old time
RetimeIsRemoveThenSchedule ==
    [][/\ \A g \in Pending' : g.seq < timeline'.events.seq
       /\ Executes =>
             /\ LastExecuted(log') \in Pending
             /\ error' = NoError => timeline'.time = LastExecuted(log').time
       /\ (Executes /\ LastExecuted(log').method = "retime" /\ error' = NoError) =>
             LET rest == Pending \ {LastExecuted(log')} IN
             \E f \in rest, t \in Times :
                 LET e == [f EXCEPT !.time = t, !.seq = timeline.events.seq,
                                    !.order = timeline.event_counter]
                 IN  /\ timeline' = schedule(remove_event(Entered.tl, f),
                                             [f EXCEPT !.time = t])
                     /\ Pending' = (rest \ {f}) \cup {e}
                     /\ Cardinality(Pending') = Cardinality(rest)
                     /\ \A g \in Pending' \ {e} : Before(g, e) \/ g.time > t
                     /\ timeline'.event_counter = timeline.event_counter + 1]_vars

\* a process has moved the third event to the time of the second, and the second
\* has run before it
RetimedEventRanLastAtItsTime ==
    /\ Len(log.executed) = 3
    /\ Pending = {}
    /\ timeline.event_counter = 4
    /\ log.executed[1].method = "retime"
    /\ log.executed[2].order = 1
    /\ log.executed[3].order = 3
    /\ log.executed[2].time = log.executed[3].time
    /\ error = NoError

\* the messages sent in a step
NewlySent == SubSeq(log'.sent, Len(log.sent) + 1, Len(log'.sent))

\* the receiver flips a bit in a step
Flips ==
    /\ Handles("receive_for_binary", 1)
    /\ Len(log'.flips) = Len(log.flips) + 1
    /\ error' = NoError

\* the blocks <<q, b>> of the passes below pass p whose checksum differs from the
\* one the sender sent
Disagreeing(c, p) ==
    {qb \in (1..(p - 1)) \X (0..(c.keylen - 1)) :
        /\ qb[2] < Len(At(c.another_checksum, qb[1]))
        /\ At(At(c.checksum_table, qb[1]), qb[2]) # At(At(c.another_checksum, qb[1]), qb[2])}

\* C27: a flip in pass 1 is followed by the request of the next checksum; after a
\* flip in a pass p >= 2 the receiver stays in p and starts a binary search on the
\* whole of the first disagreeing block, in increasing pass then increasing block,
\* of the passes below p, and requests the next checksum only if there is none
BackCorrectionFirst ==
    [][Flips =>
          LET p == receiver.state
              bad == Disagreeing(receiver', p)
          IN  IF p = 1 \/ bad = {}
              THEN /\ Len(NewlySent) = 1
                   /\ NewlySent[1].method = "send_checksum"
                   /\ NewlySent[1].args[1] = receiver'.state
              ELSE \E qb \in bad :
                      /\ \A o \in bad : qb[1] < o[1] \/ (qb[1] = o[1] /\ qb[2] <= o[2])
                      /\ receiver'.state = p
                      /\ Len(NewlySent) = 2
                      /\ \A n \in 1..2 :
                            /\ NewlySent[n].method = "send_for_binary"
                            /\ NewlySent[n].args[1] = qb[1]
                            /\ NewlySent[n].args[2] = qb[2]
                      /\ NewlySent[1].args[3] = 0
                      /\ NewlySent[1].args[4] = NewlySent[2].args[3]
                      /\ NewlySent[2].args[4]
                             = Len(At(At(receiver.block_id_to_index, qb[1]), qb[2]))]_vars

\* a flip in pass 3 has left a disagreeing block in pass 1 and one in pass 2, and
\* the receiver has started the search in pass 1
SearchStartedInEarliestPass ==
    /\ receiver.state = 3
    /\ log.executed # <<>>
    /\ LastExecuted(log).method = "receive_for_binary"
    /\ LastExecuted(log).args[1] = 3
    /\ \E qb \in Disagreeing(receiver, 3) : qb[1] = 1
    /\ \E qb \in Disagreeing(receiver, 3) : qb[1] = 2
    /\ Len(log.sent) >= 2
    /\ log.sent[Len(log.sent)].method = "send_for_binary"
    /\ log.sent[Len(log.sent)].args[1] = 1
    /\ log.sent[Len(log.sent) - 1].method = "send_for_binary"

\* the blocks of the passes below the receiver's pass that agree before the step and
\* disagree after it, and those that change either way
NewlyDisagreeing ==
    Disagreeing(receiver', receiver.state) \ Disagreeing(receiver, receiver.state)
Toggled ==
    NewlyDisagreeing
        \cup (Disagreeing(receiver, receiver.state) \ Disagreeing(receiver', receiver.state))

\* C28: a bit flip makes at most one block of the passes below the receiver's pass
\* change from agreeing to disagreeing
AtMostOneNewDisagreement == [][Flips => Cardinality(NewlyDisagreeing) <= 1]_vars

\* C28, made precise: a bit flip changes, in every pass below the receiver's pass,
\* the agreement of exactly one block, the one that holds the flipped bit; so at
\* most one block of each earlier pass, and up to state - 1 blocks in all, change
\* from agreeing to disagreeing
OneToggledBlockPerEarlierPass ==
    [][Flips =>
          LET pos == log'.flips[Len(log'.flips)] IN
          /\ Toggled = {<<q, At(At(receiver.index_to_block_id, q), pos)>> :
                           q \in 1..(receiver.state - 1)}
          /\ \A q \in 1..(receiver.state - 1) :
                Cardinality({qb \in NewlyDisagreeing : qb[1] = q}) <= 1
          /\ Cardinality(NewlyDisagreeing) <= receiver.state - 1]_vars

\* a flip in a search of pass 3 has just made a block of pass 1 and a block of
\* pass 2 disagree
TwoBlocksDisagreeAfterFlip ==
    /\ receiver.state = 3
    /\ log.executed # <<>>
    /\ LastExecuted(log).method = "receive_for_binary"
    /\ LastExecuted(log).args[1] = 3
    /\ LastExecuted(log).args[4] - LastExecuted(log).args[3] = 1
    /\ log.flips # <<>>
    /\ Cardinality(Disagreeing(receiver, 3)) = 2

\* message n of the history is the sender's checksum of pass 1, block 0
FirstChecksum(l, n) ==
    /\ l.sent[n].method = "receive_checksum"
    /\ l.sent[n].args[1] = 1
    /\ l.sent[n].args[2] = 0

\* C29: the checksum of pass 1, block 0 is sent only after the receiver has built
\* its tables and has requested it
ReceiverStartsPassOne ==
    [][\A n \in (Len(log.sent) + 1)..Len(log'.sent) :
          FirstChecksum(log', n) =>
              /\ Built(log, 1) = 1
              /\ \E m \in 1..(n - 1) :
                    /\ log'.sent[m].method = "send_checksum"
                    /\ log'.sent[m].from = 1
                    /\ log'.sent[m].args = <<1, 0>>]_vars

\* C29, made precise: pass 1 is started by the sender.  The step in which the
\* oracle delivers the real keys has the sender build its tables and send the
\* checksum of pass 1, block 0, unrequested, before the receiver builds its own
\* in the same step; the receiver handles a checksum only with its tables built,
\* and its requests are for the blocks after that one
SenderStartsPassOne ==
    [][/\ \A n \in (Len(log.sent) + 1)..Len(log'.sent) :
             /\ FirstChecksum(log', n) =>
                   /\ log'.sent[n].from = 0
                   /\ Handles("generate_key", 0)
                   /\ sender.state = 1
                   /\ log.built = <<>>
                   /\ log'.built = <<0, 1>>
                   /\ \A m \in 1..(n - 1) : log'.sent[m].method # "send_checksum"
             /\ log'.sent[n].method = "send_checksum" =>
                   /\ log'.sent[n].from = 1
                   /\ Built(log, 1) = 1
                   /\ log'.sent[n].args[1] > 1 \/ log'.sent[n].args[2] >= 1
       /\ (Handles("generate_key", 0) /\ sender.state = 1 /\ error' = NoError) =>
             /\ Len(log'.sent) = Len(log.sent) + 1
             /\ FirstChecksum(log', Len(log'.sent))
       /\ Handles("receive_checksum", 1) => Built(log, 1) = 1]_vars

\* the receiver has handled the checksum of pass 1, block 0 and has requested the
\* next one
FirstChecksumHandled ==
    /\ log.built = <<0, 1>>
    /\ \E n \in 1..Len(log.executed) :
          /\ log.executed[n].method = "receive_checksum"
          /\ log.executed[n].owner = 1
          /\ log.executed[n].args[1] = 1
          /\ log.executed[n].args[2] = 0
    /\ \E n \in 1..Len(log.sent) : log.sent[n].method = "send_checksum"

\* the first pass p > 1 with k * 2^(p-1) / 2 >= keylen, W + 1 when there is none
StopPass(c) ==
    LET stops == {p \in 2..W : c.k * Pow2(p - 1) >= 2 * c.keylen}
    IN  IF stops = {} THEN W + 1 ELSE CHOOSE p \in stops : \A q \in stops : p <= q

\* C30: a party that has built its tables holds entries for the passes below the
\* first pass p > 1 with k * 2^(p-1) / 2 >= keylen and for no other, in each of
\* index_to_block_id, block_id_to_index and checksum_table
SameNumberOfPasses ==
    \A r \in Roles :
        Built(log, r) = 1 =>
            /\ Len(cascade[r].index_to_block_id) = StopPass(cascade[r])
            /\ Len(cascade[r].checksum_table) = StopPass(cascade[r])
            /\ Len(cascade[r].block_id_to_index) = StopPass(cascade[r])

\* C31: a receive_checksum(p, b, cs) that is accepted sends one request for the next
\* checksum and nothing else when cs is checksum_table[p][b], and otherwise the two
\* queries [0, mid) and [mid, block_size) of block b, mid = block_size div 2, and
\* nothing else
ChecksumAnswered ==
    [][(Handles("receive_checksum", 1) /\ error' = NoError) =>
          LET p == LastExecuted(log').args[1]
              b == LastExecuted(log').args[2]
              cs == LastExecuted(log').args[3]
              block_size == Len(At(At(receiver.block_id_to_index, p), b))
          IN  IF cs = At(At(receiver.checksum_table, p), b)
              THEN /\ Len(NewlySent) = 1
                   /\ NewlySent[1].method = "send_checksum"
              ELSE /\ Len(NewlySent) = 2
                   /\ NewlySent[1].method = "send_for_binary"
                   /\ NewlySent[1].args = <<p, b, 0, block_size \div 2>>
                   /\ NewlySent[2].method = "send_for_binary"
                   /\ NewlySent[2].args = <<p, b, block_size \div 2, block_size>>]_vars

\* the receiver has just answered a differing checksum of a block of four bits or
\* more with the queries of its two halves
BlockSplitInHalves ==
    /\ log.executed # <<>>
    /\ LastExecuted(log).method = "receive_checksum"
    /\ Len(log.sent) >= 2
    /\ log.sent[Len(log.sent)].method = "send_for_binary"
    /\ log.sent[Len(log.sent)].args[4] >= 4
    /\ log.sent[Len(log.sent) - 1].method = "send_for_binary"
    /\ log.sent[Len(log.sent) - 1].args[3] = 0
    /\ log.sent[Len(log.sent) - 1].args[4] = log.sent[Len(log.sent)].args[3]

\* the parity of the bits of key at the positions block[start:end]
Parity(key, block, start, end) ==
    Cardinality({j \in start..(end - 1) : j < Len(block) /\ Bit(key, At(block, j)) = 1}) % 2

\* the parity the receiver holds, in cascade state c, for the range of a
\* receive_for_binary event
OwnParity(c, event) ==
    Parity(c.key, At(At(c.block_id_to_index, event.args[1]), event.args[2]),
           event.args[3], event.args[4])

\* C32: a receive_for_binary whose checksum is the receiver's own parity of the
\* range changes nothing on the receiver (key, checksum_table, another_checksum,
\* state) and schedules no event
EqualParityChangesNothing ==
    [][(Handles("receive_for_binary", 1)
            /\ LastExecuted(log').args[5] = OwnParity(receiver, LastExecuted(log'))) =>
          /\ cascade' = cascade
          /\ Pending' = Pending \ {LastExecuted(log')}
          /\ timeline'.event_counter = timeline.event_counter
          /\ log'.sent = log.sent
          /\ log'.flips = log.flips
          /\ error' = error]_vars

\* the receiver has just handled the checksum of a half of two bits or more that
\* agrees with its own, while the other half is still to be handled
EqualHalfHandled ==
    /\ log.executed # <<>>
    /\ LastExecuted(log).method = "receive_for_binary"
    /\ LastExecuted(log).args[4] - LastExecuted(log).args[3] >= 2
    /\ LastExecuted(log).args[5] = OwnParity(receiver, LastExecuted(log))
    /\ \E f \in Pending : f.method = "receive_for_binary"

\* C33: once the sender holds its real key and its tables, no step changes its key
\* or its tables, whatever it handles; from the delivery of the real keys on, a key
\* changes only on the receiver, in a step that flips a bit
OnlyReceiverCorrects ==
    [][Built(log, 0) = 1 =>
          /\ sender.key = log.initial[1]
          /\ sender'.key = sender.key
          /\ sender'.checksum_table = sender.checksum_table
          /\ sender'.index_to_block_id = sender.index_to_block_id
          /\ sender'.block_id_to_index = sender.block_id_to_index
          /\ receiver'.key # receiver.key => Flips]_vars

\* the run is complete, the sender has answered binary-search queries and the
\* receiver has changed its key; the sender's key is the one it was given
SenderKeptItsKey ==
    /\ Complete
    /\ log.flips # <<>>
    /\ receiver.key # log.initial[2]
    /\ sender.key = log.initial[1]
    /\ \E n \in 1..Len(log.executed) :
          /\ log.executed[n].method = "send_for_binary"
          /\ log.executed[n].owner = 0
          /\ log.executed[n].args[4] - log.executed[n].args[3] = 1

\* the number of positions below n in which two keys differ
Hamming(a, b, n) == Cardinality({i \in 0..(n - 1) : Bit(a, i) # Bit(b, i)})

\* C34: a flip changes the receiver's key in one bit, the flipped position, where
\* it differed from the sender's key: the Hamming distance of the two keys goes
\* down by one; no other step of the reconciliation changes the distance
FlipCorrectsAnError ==
    [][Built(log, 1) = 1 =>
          LET n == receiver.keylen
              before == Hamming(sender.key, receiver.key, n)
              after == Hamming(sender'.key, receiver'.key, n)
          IN  IF Len(log'.flips) = Len(log.flips) + 1
              THEN LET pos == log'.flips[Len(log'.flips)] IN
                   /\ pos \in 0..(n - 1)
                   /\ Bit(receiver.key, pos) # Bit(sender.key, pos)
                   /\ Bit(receiver'.key, pos) = Bit(sender.key, pos)
                   /\ \A i \in 0..(n - 1) \ {pos} : Bit(receiver'.key, i) = Bit(receiver.key, i)
                   /\ receiver'.key < Pow2(n)
                   /\ after = before - 1
              ELSE /\ log'.flips = log.flips
                   /\ after = before]_vars

\* three flips have taken the keys from three differing positions to none
ThreeErrorsCorrected ==
    /\ Len(log.flips) = 3
    /\ Hamming(log.initial[1], log.initial[2], KeyLen) = 3
    /\ receiver.key = sender.key
    /\ sender.key = log.initial[1]

\* message n of the history is the first of the two queries that start a binary
\* search: together they cover the whole of a block
StartsSearch(l, n) ==
    /\ n < Len(l.sent)
    /\ l.sent[n].method = "send_for_binary"
    /\ l.sent[n + 1].method = "send_for_binary"
    /\ l.sent[n].args[3] = 0
    /\ l.sent[n + 1].args[1] = l.sent[n].args[1]
    /\ l.sent[n + 1].args[2] = l.sent[n].args[2]
    /\ l.sent[n + 1].args[3] = l.sent[n].args[4]
    /\ l.sent[n + 1].args[4]
           = Len(At(At(receiver.block_id_to_index, l.sent[n].args[1]), l.sent[n].args[2]))

\* the number of binary searches started and not yet ended by a flip
ActiveSearches(l) ==
    Cardinality({n \in 1..Len(l.sent) : StartsSearch(l, n)}) - Len(l.flips)

\* C35: at most one binary search is active on the receiver; a flip ends the active
\* search, and none is active when the run is complete; while a search is active
\* the receiver handles no checksum and sends no request for one before the flip
OneSearchAtATime ==
    [][Built(log, 1) = 1 =>
          /\ ActiveSearches(log') \in {0, 1}
          /\ Len(log'.flips) > Len(log.flips) => ActiveSearches(log) = 1
          /\ ActiveSearches(log) = 1 =>
                /\ ~Handles("receive_checksum", 1)
                /\ (\E n \in 1..Len(NewlySent) : NewlySent[n].method = "send_checksum")
                       => Flips
          /\ Complete' => ActiveSearches(log') = 0]_vars

\* a search started by back-correction has ended in a flip, after the search of
\* the pass that uncovered the error
TwoSearchesOneAfterTheOther ==
    /\ Len(log.flips) = 2
    /\ ActiveSearches(log) = 0
    /\ \E n \in 1..Len(log.sent) : StartsSearch(log, n) /\ log.sent[n].args[1] = 2
    /\ \E n \in 1..Len(log.sent) : StartsSearch(log, n) /\ log.sent[n].args[1] = 1
    /\ receiver.state >= 2

\* C36: whatever the delays of the oracle's callbacks, the receiver handles a
\* checksum only with its tables built, and the handling raises nothing
BuiltBeforeFirstChecksum ==
    [][Handles("receive_checksum", 1) =>
          /\ Built(log, 1) = 1
          /\ error' = NoError]_vars

\* C37: when the receiver has finished, every checksum it has received is the one
\* of its own table
NoDisagreementLeft ==
    Complete =>
        \A p \in Passes(receiver) :
            /\ InRange(receiver.another_checksum, p)
            /\ \A b \in 0..(Len(At(receiver.another_checksum, p)) - 1) :
                  At(At(receiver.checksum_table, p), b) = At(At(receiver.another_checksum, p), b)


\* C38: once both parties have built their tables, the sender's state is the
\* receiver's or one less, and no state is beyond number_of_passes + 1
SenderAtMostOneBehind ==
    (Built(log, 0) > 0 /\ Built(log, 1) > 0) =>
        /\ sender.state \in {receiver.state - 1, receiver.state}
        /\ \A r \in Roles : cascade[r].state <= Len(cascade[r].checksum_table)


SenderBehindPastLastPass ==
    /\ Built(log, 0) > 0 /\ Built(log, 1) > 0
    /\ receiver.state = Len(receiver.checksum_table)
    /\ sender.state = receiver.state - 1
    /\ error = NoError

-----------------------------------------------------------------------------
(* Properties of the Memory on the timeline *)

\* the expire events of the memory the timeline holds
PendingExpire == {e \in Pending : e.owner = "memory" /\ e.method = "expire"}

\* C39: at most one expire event of the memory is pending, and when one is
\* pending, expiration_event is that event
OneTrackedExpireEvent ==
    /\ Cardinality(PendingExpire) <= 1
    /\ \A e \in PendingExpire : memory.expiration_event = e

\* C40: every event the memory gives to remove_event is in the event list at
\* that moment
RemovesOnlyPending ==
    \A n \in 1..Len(memory.removed) : memory.removed[n].pending

=============================================================================
